---- MODULE Spec2Model ----
(***************************************************************************)
(* VidScribe: the poller, processor, newsletter and cleanup Lambda handlers *)
(* over the single DynamoDB table and the SQS work queue.                  *)
(*                                                                         *)
(* Time is counted in whole days; an ISO-8601 UTC timestamp string is      *)
(* modelled by its day number (string comparison of two isoformat() values *)
(* in the same zone orders them as the instants they denote).              *)
(* A DynamoDB item is a function from attribute names to values: an        *)
(* attribute the item does not carry is not in its DOMAIN.                 *)
(***************************************************************************)
EXTENDS Integers, Sequences, FiniteSets, Bags, TLC

\* table            the DynamoDB table: key -> item
\* queue            the visible messages of the SQS queue, a bag
\* now              the clock, in days
\* youtube          the videos the YouTube searches can return
\* poller, proc,    the position and locals of each handler invocation
\* news, cleanup    (poller, processor, newsletter, cleanup)
\* discovery_sends  per video, the messages the discovery loop has sent (the
\*                  stats["videos_queued"] increments, summed over invocations)
\* digest_sends     per video, the emails sent with success whose digest held
\*                  the video's summary, counted up to MaxDigests
VARIABLES table, queue, now, youtube, poller, proc, news, cleanup, discovery_sends,
          digest_sends

vars == <<table, queue, now, youtube, poller, proc, news, cleanup, discovery_sends,
          digest_sends>>

\* ------------------------------------------------------------------ bounds

\* Last day of Spec.
MaxTime == 2

\* Last day of HealthySpec: the third failure of a video that fails on days
\* 0, 1 and 4 (each retry as soon as its window has passed) is on day 4.
MaxDays == 5

\* Last day of SweepSpec.
SweepDays == 1

\* Most messages the queue holds at once.
MaxQueue == 2

\* Most records one processor invocation receives.
MaxBatch == 1

\* Most records one processor invocation receives in BatchSpec.
BatchSize == 2

\* Last day of PipelineSpec: a video that has no transcript on day 0 is swept
\* and summarized on day 1.
PipelineDays == 1

\* Last day of NewsSpec.
NewsDays == 1

\* The count of digest_sends stops here.
MaxDigests == 2

\* Items one Query call reads before it returns a LastEvaluatedKey.
QueryPageItems == 1

\* QuerySpec: the summaries are of the days 0..QuerySpread, and the
\* newsletter runs WINDOW_DAYS days after day 1.
QuerySpread == 2

\* CleanupSpec: the videos first failed on the days 0..CleanupSpread, and the
\* cleanup runs CLEANUP_AGE_DAYS days after day 1.
CleanupSpread == 2

\* Items one Scan call reads before it returns a LastEvaluatedKey (DynamoDB
\* reads at most 1 MB per call and filters afterwards).
ScanPageItems == 2

\* The retry_count from which on no invocation of the processor is ended
\* before it returns.
MaxRecorded == 2

Videos == {"v1", "v2"}

Pollers == {"p1", "p2"}

Processors == {"w1"}

Newsletters == {"n1", "n2"}

Cleaners == {"c1"}

\* --------------------------------------------------------------- constants

MAX_TRANSCRIPT_RETRIES == 3

\* CLEANUP_AGE_DAYS, the default of the environment variable
CLEANUP_AGE_DAYS == 30

\* timedelta(days=7) of get_weekly_summaries
WINDOW_DAYS == 7

RETRY_SCHEDULE_DAYS == <<1, 3, 5>>

TTL_DAYS == 30

\* published_after = now - 24 hours
LOOKBACK_DAYS == 1

\* The channel list of the SSM parameter, and the channel each video is on.
channel_ids == <<"c1", "c2">>

ChannelOf(v) == IF v = "v1" THEN "c1" ELSE "c2"

\* Every video of the model is published on day 0.
PublishedAt(v) == 0

Min(a, b) == IF a <= b THEN a ELSE b

\* ------------------------------------------------------------ the table

NoItem == [a \in {} |-> 0]

VideoKey(v) == <<"VIDEO", v>>

SummaryKey(v) == <<"SUMMARY", v>>

\* The order in which Scan walks the keys of the table.
ScanOrder == <<VideoKey("v1"), SummaryKey("v1"), VideoKey("v2"), SummaryKey("v2")>>

\* item.get(attr, default)
Get(item, attr, default) == IF attr \in DOMAIN item THEN item[attr] ELSE default

\* table.get_item(Key=key): the response carries "Item" when the key exists.
get_item(t, key) == IF key \in DOMAIN t THEN [Item |-> t[key]] ELSE NoItem

\* table.put_item(Item=item) without a condition: creates or replaces.
put_item(t, key, item) == [k \in DOMAIN t \cup {key} |-> IF k = key THEN item ELSE t[k]]

\* delete_item for a delete that leaves the item where it is.
delete_item_kept(t, key) == t

\* table.delete_item(Key=key): the item is gone; no error when there is none.
delete_item(t, key) == [k \in DOMAIN t \ {key} |-> t[k]]

\* An update that puts the attributes of sets in the place of the item.
update_item_replacing(t, key, sets) == put_item(t, key, sets)

\* table.update_item(Key=key, UpdateExpression="SET ..."): sets the attributes
\* of sets on the item, creating the item when the key does not exist.
update_item(t, key, sets) ==
  LET old == IF key \in DOMAIN t THEN t[key] ELSE NoItem
  IN  put_item(t, key, sets @@ old)

\* One Scan call: the first ScanPageItems keys in scan order, existing ones only.
ScanPage(t) ==
  LET present == SelectSeq(ScanOrder, LAMBDA k : k \in DOMAIN t)
  IN  SubSeq(present, 1, Min(ScanPageItems, Len(present)))

\* --------------------------------------------------------------- the queue

\* The messages of a sequence, as a bag.
BagOfSeq(s) ==
  [m \in {s[n] : n \in DOMAIN s} |-> Cardinality({n \in DOMAIN s : s[n] = m})]

RECURSIVE InFlight(_)
InFlight(ws) ==
  IF ws = {} THEN 0
  ELSE LET w == CHOOSE x \in ws : TRUE IN Len(proc[w].batch) + InFlight(ws \ {w})

\* The messages in the queue, visible or in flight.
QueueSize == BagCardinality(queue) + InFlight(DOMAIN proc)

\* The result of a store or queue call: TRUE when it succeeds, FALSE when it
\* raises ClientError. faults says whether the environment may fail.
Outcomes(faults) == IF faults THEN {TRUE, FALSE} ELSE {TRUE}

\* ------------------------------------------------------------------ poller

\* One entry of get_youtube_videos' result.
VideoDict(v) ==
  [video_id |-> v, title |-> <<"title", v>>, channel_id |-> ChannelOf(v),
   channel_title |-> <<"channel", ChannelOf(v)>>, published_at |-> PublishedAt(v),
   description |-> <<"description", v>>]

\* The lists get_youtube_videos can return for channel c at time t: the videos
\* of the channel published after t - 24h, or nothing (none found, or an API
\* error, which is logged).
get_youtube_videos(c, t) ==
  {<<>>} \cup {<<VideoDict(v)>> : v \in {x \in youtube : ChannelOf(x) = c
                                            /\ PublishedAt(x) >= t - LOOKBACK_DAYS}}

\* What the channel loop can find, channel after channel. The search calls
\* read nothing of the table or the queue, so their results are drawn when
\* the invocation starts.
RECURSIVE Discover(_, _)
Discover(channels, t) ==
  IF channels = <<>> THEN {<<>>}
  ELSE UNION {{found \o rest : rest \in Discover(Tail(channels), t)} :
               found \in get_youtube_videos(Head(channels), t)}

\* json.dumps of the five fields send_to_sqs puts in the message body.
MessageBody(video) ==
  [video_id |-> video.video_id, title |-> video.title, channel_id |-> video.channel_id,
   channel_title |-> video.channel_title, published_at |-> video.published_at]

PollerIdle == [pc |-> "idle", videos |-> <<>>, items |-> <<>>, errors |-> 0]

\* summaries is the list get_weekly_summaries returned (video ids), i the
\* place of mark_summaries_sent's loop in it, sent_at the time that function
\* read at entry, stats its counters and success the result of the send.
NewsIdle == [pc |-> "idle", summaries |-> <<>>, i |-> 0, sent_at |-> 0, success |-> FALSE,
             stats |-> [marked |-> 0, errors |-> 0]]

\* cutoff is the time cleanup_permanently_failed computes at entry, items the
\* page the last Scan call returned (video_id and first_failed_at of each),
\* i the place of the loop in it, last_key the LastEvaluatedKey (a place in
\* ScanOrder; 0 for none), stats the counters.
CleanupIdle == [pc |-> "idle", cutoff |-> 0, items |-> <<>>, i |-> 0, last_key |-> 0,
                stats |-> [scanned |-> 0, deleted |-> 0, errors |-> 0]]

\* failures is batch_item_failures, a record being named by its place in the
\* batch. Kept beside the handler's locals, for the properties below:
\* recorded, the records mark_video_failed was called for, one entry a call;
\* summarized, the records generate_summary was called for; saved, the records
\* save_summary returned True for; before, the video record of each record
\* of the batch as it was when the invocation began.
ProcIdle == [pc |-> "idle", batch |-> <<>>, plan |-> <<>>, i |-> 0, failures |-> <<>>,
             recorded |-> <<>>, summarized |-> {}, saved |-> {}, before |-> <<>>,
             state |-> NoItem]

InitWith(catalogue) ==
  /\ table = [k \in {} |-> NoItem]
  /\ queue = EmptyBag
  /\ now = 0
  /\ youtube = catalogue
  /\ poller = [p \in Pollers |-> PollerIdle]
  /\ proc = [w \in Processors |-> ProcIdle]
  /\ news = [n \in Newsletters |-> NewsIdle]
  /\ discovery_sends = [v \in Videos |-> 0]
  /\ digest_sends = [v \in Videos |-> 0]
  /\ cleanup = [c \in Cleaners |-> CleanupIdle]

\* The channel loop ending the invocation after its last video.
NextVideo_returning(s) ==
  IF Len(s.videos) > 1 THEN [s EXCEPT !.videos = Tail(@), !.pc = "check"]
  ELSE PollerIdle

\* The state of the poller once the current video is done: the next video,
\* else the retry sweep.
NextVideo(s) ==
  IF Len(s.videos) > 1 THEN [s EXCEPT !.videos = Tail(@), !.pc = "check"]
  ELSE [s EXCEPT !.videos = <<>>, !.pc = "sweep"]

\* lambda_handler entry: configuration is read and the channels are searched.
PollerStart(p) ==
  /\ poller[p].pc = "idle"
  /\ \E found \in Discover(channel_ids, now) :
       poller' = [poller EXCEPT ![p] =
                    [PollerIdle EXCEPT !.videos = found,
                                       !.pc = IF found = <<>> THEN "sweep" ELSE "check"]]
  /\ UNCHANGED <<table, queue, now, youtube, news, proc, discovery_sends, digest_sends, cleanup>>

\* lambda_handler entry when get_ssm_parameter raises or youtube_channels is
\* not a JSON array: no channel is searched.
PollerConfigError(p) ==
  /\ poller[p].pc = "idle"
  /\ poller' = [poller EXCEPT ![p] = [PollerIdle EXCEPT !.pc = "error"]]
  /\ UNCHANGED <<table, queue, now, youtube, news, proc, discovery_sends, digest_sends, cleanup>>

\* The return of statusCode 500 that follows.
PollerReturnError(p) ==
  /\ poller[p].pc = "error"
  /\ poller' = [poller EXCEPT ![p] = PollerIdle]
  /\ UNCHANGED <<table, queue, now, youtube, news, proc, discovery_sends, digest_sends, cleanup>>

\* is_video_processed: a ClientError is logged and answered False.
is_video_processed(t, video_id, ok) ==
  IF ok THEN "Item" \in DOMAIN get_item(t, VideoKey(video_id)) ELSE FALSE

PollerCheck(p, faults) ==
  /\ poller[p].pc = "check"
  /\ \E ok \in Outcomes(faults) :
       poller' = [poller EXCEPT ![p] =
                    IF is_video_processed(table, Head(poller[p].videos).video_id, ok)
                    THEN NextVideo(poller[p])
                    ELSE [poller[p] EXCEPT !.pc = "mark"]]
  /\ UNCHANGED <<table, queue, now, youtube, news, proc, discovery_sends, digest_sends, cleanup>>

\* The item mark_video_queued writes at time t.
QueuedItem(video, t) ==
  [video_id |-> video.video_id, title |-> video.title, channel_id |-> video.channel_id,
   channel_title |-> video.channel_title, published_at |-> video.published_at,
   description |-> video.description, status |-> "QUEUED", queued_at |-> t,
   ttl |-> t + TTL_DAYS]

\* mark_video_queued with the ConditionExpression left out.
mark_video_queued_unconditional(t, video, at, ok) ==
  IF ok
  THEN <<put_item(t, VideoKey(video.video_id), QueuedItem(video, at)), TRUE>>
  ELSE <<t, FALSE>>

\* mark_video_queued answering True when the condition fails.
mark_video_queued_ignoring_failure(t, video, at, ok) ==
  IF ok /\ VideoKey(video.video_id) \notin DOMAIN t
  THEN <<put_item(t, VideoKey(video.video_id), QueuedItem(video, at)), TRUE>>
  ELSE <<t, ok>>

\* mark_video_queued: put_item under attribute_not_exists(pk). The result is
\* the pair of the table afterwards and the value returned; a ClientError,
\* ConditionalCheckFailedException or another, is answered False.
mark_video_queued(t, video, at, ok) ==
  IF ok /\ VideoKey(video.video_id) \notin DOMAIN t
  THEN <<put_item(t, VideoKey(video.video_id), QueuedItem(video, at)), TRUE>>
  ELSE <<t, FALSE>>

PollerMark(p, faults) ==
  /\ poller[p].pc = "mark"
  /\ \E ok \in Outcomes(faults) :
       LET r == mark_video_queued(table, Head(poller[p].videos), now, ok)
       IN  /\ table' = r[1]
           /\ poller' = [poller EXCEPT ![p] =
                           IF r[2] THEN [poller[p] EXCEPT !.pc = "send"]
                           ELSE NextVideo(poller[p])]
  /\ UNCHANGED <<queue, now, youtube, news, proc, discovery_sends, digest_sends, cleanup>>

\* stats["errors"] after a call that answered sent.
count_error_never(errors, sent) == errors

\* else: stats["errors"] += 1
count_error(errors, sent) == IF sent THEN errors ELSE errors + 1

\* send_to_sqs: the queue afterwards and the value returned.
send_to_sqs(q, video, ok) ==
  IF ok THEN <<q (+) SetToBag({MessageBody(video)}), TRUE>> ELSE <<q, FALSE>>

PollerSend(p, faults) ==
  /\ poller[p].pc = "send"
  /\ QueueSize < MaxQueue
  /\ \E ok \in Outcomes(faults) :
       LET video == Head(poller[p].videos)
           r     == send_to_sqs(queue, video, ok)
       IN  /\ queue' = r[1]
           /\ discovery_sends' =
                [discovery_sends EXCEPT ![video.video_id] = IF r[2] THEN @ + 1 ELSE @]
           /\ poller' = [poller EXCEPT ![p] =
                           NextVideo([poller[p] EXCEPT !.errors = count_error(@, r[2])])]
  /\ UNCHANGED <<table, now, youtube, news, proc, digest_sends, cleanup>>

\* ------------------------------------------------------------- retry sweep

\* The filter with the conditions on status and failure_reason left out.
Retryable_by_time_only(item, t) ==
  "next_retry_at" \in DOMAIN item /\ item.next_retry_at <= t

\* The FilterExpression of the sweep's scan, at now_iso = t. A comparison on an
\* attribute the item does not carry is false.
Retryable(item, t) ==
  /\ "status" \in DOMAIN item /\ item.status = "FAILED"
  /\ "failure_reason" \in DOMAIN item /\ item.failure_reason = "NO_TRANSCRIPT"
  /\ "next_retry_at" \in DOMAIN item /\ item.next_retry_at <= t

\* The Items of the response to the sweep's single table.scan call: the filter
\* is applied to the page the call read; LastEvaluatedKey is not followed.
ScanRetryable(t, at) ==
  LET page == ScanPage(t)
      hits == SelectSeq(page, LAMBDA k : Retryable(t[k], at))
  IN  [n \in 1..Len(hits) |-> t[hits[n]]]

\* video_data built from a scanned item, with the defaults for absent fields.
RetryVideo(item, at) ==
  LET video_id == Get(item, "video_id", "")
  IN  [video_id |-> video_id,
       title |-> Get(item, "title", <<"Retry", video_id>>),
       channel_id |-> Get(item, "channel_id", "RETRY"),
       channel_title |-> Get(item, "channel_title", <<"Retry">>),
       published_at |-> Get(item, "published_at", at)]

\* A sweep that finds nothing to send again.
requeue_retryable_videos_none(t, at, ok) == <<>>

\* requeue_retryable_videos up to the end of the scan: the video_data of the
\* items to send. A scan that raises is logged and nothing is sent.
requeue_retryable_videos(t, at, ok) ==
  LET items == IF ok THEN ScanRetryable(t, at) ELSE <<>>
  IN  [n \in 1..Len(items) |-> RetryVideo(items[n], at)]

PollerSweep(p, faults) ==
  /\ poller[p].pc = "sweep"
  /\ \E ok \in Outcomes(faults) :
       LET items == requeue_retryable_videos(table, now, ok)
       IN  poller' = [poller EXCEPT ![p] =
                        IF items = <<>> THEN PollerIdle
                        ELSE [poller[p] EXCEPT !.pc = "requeue", !.items = items]]
  /\ UNCHANGED <<table, queue, now, youtube, news, proc, discovery_sends, digest_sends, cleanup>>

\* The send of the sweep, counting the attempt on the record it re-enqueues.
PollerRequeue_counting_attempt(p, faults) ==
  /\ poller[p].pc = "requeue"
  /\ QueueSize < MaxQueue
  /\ \E ok \in Outcomes(faults) :
       LET video == Head(poller[p].items)
           r     == send_to_sqs(queue, video, ok)
       IN  /\ queue' = r[1]
           /\ table' = IF r[2] /\ VideoKey(video.video_id) \in DOMAIN table
                        THEN update_item(table, VideoKey(video.video_id),
                               [retry_count |->
                                  Get(table[VideoKey(video.video_id)], "retry_count", 0) + 1])
                        ELSE table
           /\ poller' = [poller EXCEPT ![p] =
                           IF Len(poller[p].items) > 1
                           THEN [poller[p] EXCEPT !.items = Tail(@),
                                                  !.errors = count_error(@, r[2])]
                           ELSE PollerIdle]
  /\ UNCHANGED <<now, youtube, news, proc, discovery_sends, digest_sends, cleanup>>

\* One round of the sweep's loop: send_to_sqs(video_data).
PollerRequeue(p, faults) ==
  /\ poller[p].pc = "requeue"
  /\ QueueSize < MaxQueue
  /\ \E ok \in Outcomes(faults) :
       LET r == send_to_sqs(queue, Head(poller[p].items), ok)
       IN  /\ queue' = r[1]
           /\ poller' = [poller EXCEPT ![p] =
                           IF Len(poller[p].items) > 1
                           THEN [poller[p] EXCEPT !.items = Tail(@),
                                                  !.errors = count_error(@, r[2])]
                           ELSE PollerIdle]
  /\ UNCHANGED <<table, now, youtube, news, proc, discovery_sends, digest_sends, cleanup>>

\* --------------------------------------------------------------- processor

\* len("Failed to retrieve transcript")
NoTranscriptErrorLen == 29

\* The length of str(e) of a TranscriptBlockedError (a long library message).
BlockedErrorLen == 600

\* error[:500], an error text being modelled by its length.
ErrorLimit == 500

\* The batches an invocation can receive from queue q: at most n messages.
RECURSIVE Batches(_, _)
Batches(q, n) ==
  IF n = 0 THEN {<<>>}
  ELSE {<<>>} \cup UNION {{<<m>> \o rest : rest \in Batches(q (-) SetToBag({m}), n - 1)} :
                           m \in BagToSet(q)}

\* How the calls of steps 1 and 2 of the loop body can end for one record:
\* the transcript request is blocked (IpBlocked, RequestBlocked), transcripts
\* are disabled, the video is unavailable, no transcript is found, the fetch
\* raises another exception (a rate limit, a network error), or a transcript
\* is returned and then the provider call fails, returns "" or returns a text.
\* The calls read nothing of the table or the queue, so their ends are drawn
\* with the batch.
FetchOutcomes ==
  {"ip_blocked", "transcripts_disabled", "video_unavailable", "no_transcript_found",
   "fetch_error", "llm_error", "llm_empty", "llm_text"}

\* One outcome for each path of the loop body.
BasicOutcomes == {"ip_blocked", "no_transcript_found", "llm_error", "llm_text"}

\* get_transcript: what it raises or returns; value <<>> is None, else <<text>>.
get_transcript(outcome) ==
  IF outcome = "ip_blocked" THEN [raises |-> TRUE, value |-> <<>>]
  ELSE IF outcome \in {"transcripts_disabled", "video_unavailable",
                       "no_transcript_found", "fetch_error"}
       THEN [raises |-> FALSE, value |-> <<>>]
       ELSE [raises |-> FALSE, value |-> <<<<"transcript">>>>]

\* The text generate_summary returned for a video.
SummaryOf(video) == <<"summary", video.video_id>>

\* generate_summary: <<>> is None, else <<text>>; the text "" is <<>>.
generate_summary(outcome, video) ==
  IF outcome = "llm_error" THEN <<>>
  ELSE IF outcome = "llm_empty" THEN << <<>> >>
       ELSE <<SummaryOf(video)>>

\* A body json.loads cannot parse, as a producer other than the poller can
\* put on the queue.
Unparseable == [unparseable |-> TRUE]

\* A body that parses to an object without the fields the loop reads.
Incomplete == [incomplete |-> TRUE]

\* RaisesJSONDecodeError for a handler that parses nothing out of the loop's
\* way: no body counts as unparseable.
RaisesJSONDecodeError_never(body) == FALSE

\* json.loads(record["body"]) raises JSONDecodeError
RaisesJSONDecodeError(body) == "unparseable" \in DOMAIN body

\* video["video_id"], video["title"] raise KeyError
RaisesKeyError(body) == {"video_id", "title"} \ DOMAIN body # {}

\* A producer other than the poller puts a message on the queue.
SendForeign ==
  /\ QueueSize < MaxQueue
  /\ \E body \in {Unparseable, Incomplete} : queue' = queue (+) SetToBag({body})
  /\ UNCHANGED <<table, now, youtube, news, poller, proc, discovery_sends, digest_sends, cleanup>>

\* The loop from record s.i on, up to the next store call. An unparseable
\* body is skipped; an exception other than JSONDecodeError and a summary of
\* None append the record to batch_item_failures; then the loop continues.
RECURSIVE Advance(_)
Advance(s) ==
  IF s.i > Len(s.batch) THEN [s EXCEPT !.pc = "return"]
  ELSE LET video == s.batch[s.i]
       IN  IF RaisesJSONDecodeError(video) THEN Advance([s EXCEPT !.i = @ + 1])
           ELSE IF RaisesKeyError(video)
           THEN Advance([s EXCEPT !.failures = Append(@, s.i), !.i = @ + 1])
           ELSE LET transcript == get_transcript(s.plan[s.i])
                IN  IF transcript.raises THEN [s EXCEPT !.pc = "mark_failed"]
                    ELSE IF transcript.value = <<>> THEN [s EXCEPT !.pc = "retry_state"]
                    ELSE IF generate_summary(s.plan[s.i], video) = <<>>
                    THEN Advance([s EXCEPT !.summarized = @ \cup {s.i},
                                           !.failures = Append(@, s.i), !.i = @ + 1])
                    ELSE [s EXCEPT !.summarized = @ \cup {s.i}, !.pc = "save_update"]

\* The state of the processor once the current record is done (continue).
NextRecord(s) == Advance([s EXCEPT !.i = @ + 1, !.state = NoItem])

\* FailRecord for a handler that goes on to the next record without naming
\* the failed one.
FailRecord_unreported(s) == NextRecord(s)

\* batch_item_failures.append({"itemIdentifier": message_id}); continue
FailRecord(s) == NextRecord([s EXCEPT !.failures = Append(@, s.i)])

\* mark_video_failed was called for the record, which is also reported.
RecordFailure_reported(s) == FailRecord([s EXCEPT !.recorded = Append(@, s.i)])

\* mark_video_failed was called for the record; continue.
RecordFailure(s) == NextRecord([s EXCEPT !.recorded = Append(@, s.i)])

\* The messages batchItemFailures names, which the queue redelivers.
Redelivered(s) ==
  LET failed == {s.failures[k] : k \in DOMAIN s.failures}
  IN  BagOfSeq([n \in 1..Cardinality(failed) |->
                 s.batch[CHOOSE i \in failed : Cardinality({j \in failed : j < i}) = n - 1]])

\* The ends drawn for a batch, among outcomes: one for each record the loop
\* fetches for.
Plans(batch, outcomes) ==
  {plan \in [1..Len(batch) -> outcomes \cup {"none"}] :
     \A n \in 1..Len(batch) :
       plan[n] = "none" <=> RaisesJSONDecodeError(batch[n]) \/ RaisesKeyError(batch[n])}

\* The video record of each message of a batch, in table t.
StoredVideos(t, batch) ==
  [n \in 1..Len(batch) |->
     IF "video_id" \in DOMAIN batch[n] /\ VideoKey(batch[n].video_id) \in DOMAIN t
     THEN t[VideoKey(batch[n].video_id)] ELSE NoItem]

\* The event source mapping hands the invocation a batch of at most size
\* messages; they stay in flight until the invocation returns. When the LLM
\* configuration cannot be read, every record is a batch failure.
ProcReceive(w, faults, size, outcomes) ==
  /\ proc[w].pc = "idle"
  /\ \E batch \in Batches(queue, size) \ {<<>>} :
       /\ queue' = queue (-) BagOfSeq(batch)
       /\ \E plan \in Plans(batch, outcomes) : \E ok \in Outcomes(faults) :
            LET began == [ProcIdle EXCEPT !.batch = batch, !.plan = plan,
                                          !.before = StoredVideos(table, batch)]
            IN  proc' = [proc EXCEPT ![w] =
                  IF ok
                  THEN Advance([began EXCEPT !.i = 1])
                  ELSE [began EXCEPT !.pc = "return",
                                     !.failures = [n \in 1..Len(batch) |-> n]]]
  /\ UNCHANGED <<table, now, youtube, news, poller, discovery_sends, digest_sends, cleanup>>

\* return {"batchItemFailures": batch_item_failures}: the queue deletes the
\* acknowledged messages of the batch and makes the failed ones visible again.
ProcReturn(w) ==
  /\ proc[w].pc = "return"
  /\ queue' = queue (+) Redelivered(proc[w])
  /\ proc' = [proc EXCEPT ![w] = ProcIdle]
  /\ UNCHANGED <<table, now, youtube, news, poller, discovery_sends, digest_sends, cleanup>>

\* An optional timestamp as get_retry_state returns it: <<>> for "".
Opt(item, attr) == IF attr \in DOMAIN item THEN <<item[attr]>> ELSE <<>>

\* get_retry_state: the dict returned, {} after a ClientError.
get_retry_state(t, video_id, ok) ==
  IF ok
  THEN LET item == Get(get_item(t, VideoKey(video_id)), "Item", NoItem)
       IN  [retry_count |-> Get(item, "retry_count", 0),
            first_failed_at |-> Opt(item, "first_failed_at"),
            failure_reason |-> Get(item, "failure_reason", ""),
            status |-> Get(item, "status", "")]
  ELSE NoItem

\* mark_video_failed(NO_TRANSCRIPT) up to the end of get_retry_state: now is
\* read, then the retry state.
ProcRetryState(w, faults) ==
  /\ proc[w].pc = "retry_state"
  /\ \E ok \in Outcomes(faults) :
       LET s == proc[w]
       IN  proc' = [proc EXCEPT ![w] =
             [s EXCEPT !.pc = "mark_failed",
                       !.state = [at |-> now,
                                  retry |-> get_retry_state(table, s.batch[s.i].video_id, ok)]]]
  /\ UNCHANGED <<table, queue, now, youtube, news, poller, discovery_sends, digest_sends, cleanup>>

\* first_failed taken from the clock whatever the state holds.
first_failed_at_overwritten(state, at) == at

\* first_failed = state.get("first_failed_at", "") or now_iso
first_failed_at(state, at) ==
  LET stored == Get(state, "first_failed_at", <<>>)
  IN  IF stored = <<>> THEN at ELSE stored[1]

\* The exhaustion test with > for >=.
retries_exhausted_late(new_retry_count) == new_retry_count > MAX_TRANSCRIPT_RETRIES

\* if new_retry_count >= MAX_TRANSCRIPT_RETRIES
retries_exhausted(new_retry_count) == new_retry_count >= MAX_TRANSCRIPT_RETRIES

\* The schedule indexed by new_retry_count instead of new_retry_count - 1.
days_until_retry_post_increment(new_retry_count) ==
  RETRY_SCHEDULE_DAYS[Min(new_retry_count, Len(RETRY_SCHEDULE_DAYS) - 1) + 1]

\* RETRY_SCHEDULE_DAYS[min(new_retry_count - 1, len(RETRY_SCHEDULE_DAYS) - 1)],
\* the schedule being indexed from 1 here.
days_until_retry(new_retry_count) ==
  RETRY_SCHEDULE_DAYS[Min(new_retry_count - 1, Len(RETRY_SCHEDULE_DAYS) - 1) + 1]

\* The attributes SET when retries are exhausted.
ExhaustedAttributes(error, new_retry_count, first_failed, at) ==
  [status |-> "PERMANENTLY_FAILED", error |-> Min(error, ErrorLimit),
   failure_reason |-> "NO_TRANSCRIPT_EXHAUSTED", failed_at |-> at,
   retry_count |-> new_retry_count, first_failed_at |-> first_failed]

\* The retry branch with next_retry_at left out of the SET.
RetryAttributes_unscheduled(error, new_retry_count, first_failed, at) ==
  [status |-> "FAILED", error |-> Min(error, ErrorLimit),
   failure_reason |-> "NO_TRANSCRIPT", failed_at |-> at,
   retry_count |-> new_retry_count, first_failed_at |-> first_failed]

\* The attributes SET when the next retry is scheduled.
RetryAttributes(error, new_retry_count, first_failed, at) ==
  [status |-> "FAILED", error |-> Min(error, ErrorLimit),
   failure_reason |-> "NO_TRANSCRIPT", failed_at |-> at,
   retry_count |-> new_retry_count, first_failed_at |-> first_failed,
   next_retry_at |-> at + days_until_retry(new_retry_count)]

\* TerminalAttributes with the reason mark_video_failed's parameter defaults to
\* in place of the one the caller passed.
TerminalAttributes_default_reason(failure_reason, error, at) ==
  [status |-> "FAILED", error |-> Min(error, ErrorLimit),
   failure_reason |-> "FAILED", failed_at |-> at]

\* The attributes SET for a failure that is not retried.
TerminalAttributes(failure_reason, error, at) ==
  [status |-> "FAILED", error |-> Min(error, ErrorLimit),
   failure_reason |-> failure_reason, failed_at |-> at]

\* The attributes mark_video_failed SETs, from the retry state it read (for
\* NO_TRANSCRIPT; {} when the read failed) and the time at it took at entry.
FailedAttributes(failure_reason, error, state, at) ==
  IF failure_reason = "NO_TRANSCRIPT"
  THEN LET current_retry   == Get(state, "retry_count", 0)
           first_failed    == first_failed_at(state, at)
           new_retry_count == current_retry + 1
       IN  IF retries_exhausted(new_retry_count)
           THEN ExhaustedAttributes(error, new_retry_count, first_failed, at)
           ELSE RetryAttributes(error, new_retry_count, first_failed, at)
  ELSE TerminalAttributes(failure_reason, error, at)

\* mark_video_failed's update_item: the table afterwards. A ClientError is
\* logged and the table stays as it was.
mark_video_failed(t, video_id, failure_reason, error, state, at, ok) ==
  IF ok
  THEN update_item(t, VideoKey(video_id), FailedAttributes(failure_reason, error, state, at))
  ELSE t

\* The write of mark_video_failed, for YOUTUBE_BLOCKED (now is read here) or
\* for NO_TRANSCRIPT (now was read before get_retry_state); then continue.
ProcMarkFailed(w, faults) ==
  /\ proc[w].pc = "mark_failed"
  /\ \E ok \in Outcomes(faults) :
       LET s == proc[w]
           video_id == s.batch[s.i].video_id
       IN  table' = IF get_transcript(s.plan[s.i]).raises
                    THEN mark_video_failed(table, video_id, "YOUTUBE_BLOCKED", BlockedErrorLen,
                                           NoItem, now, ok)
                    ELSE mark_video_failed(table, video_id, "NO_TRANSCRIPT",
                                           NoTranscriptErrorLen, s.state.retry, s.state.at, ok)
  /\ proc' = [proc EXCEPT ![w] = RecordFailure(proc[w])]
  /\ UNCHANGED <<queue, now, youtube, news, poller, discovery_sends, digest_sends, cleanup>>

\* The attributes save_summary SETs on the video record.
ProcessedAttributes(summary, at) ==
  [status |-> "PROCESSED", processed_at |-> at, summary |-> summary]

\* save_summary, first write: the video record becomes PROCESSED. A
\* ClientError makes save_summary return False: the record is a batch failure.
ProcSaveUpdate(w, faults) ==
  /\ proc[w].pc = "save_update"
  /\ \E ok \in Outcomes(faults) :
       LET s == proc[w]
           video == s.batch[s.i]
           summary == generate_summary(s.plan[s.i], video)[1]
       IN  IF ok
           THEN /\ table' = update_item(table, VideoKey(video.video_id),
                                        ProcessedAttributes(summary, now))
                /\ proc' = [proc EXCEPT ![w] =
                              [s EXCEPT !.pc = "save_put", !.state = [at |-> now]]]
           ELSE /\ table' = table
                /\ proc' = [proc EXCEPT ![w] = FailRecord(s)]
  /\ UNCHANGED <<queue, now, youtube, news, poller, discovery_sends, digest_sends, cleanup>>

\* SummaryItem with the video's title stored for the summary text.
SummaryItem_title_for_summary(video, summary, at) ==
  [gsi1pk |-> "SUMMARY", gsi1sk |-> at, video_id |-> video.video_id, title |-> video.title,
   channel_id |-> video.channel_id, channel_title |-> video.channel_title,
   published_at |-> video.published_at, summary |-> video.title, summarized_at |-> at,
   ttl |-> at + TTL_DAYS]

\* The summary record save_summary puts.
SummaryItem(video, summary, at) ==
  [gsi1pk |-> "SUMMARY", gsi1sk |-> at, video_id |-> video.video_id, title |-> video.title,
   channel_id |-> video.channel_id, channel_title |-> video.channel_title,
   published_at |-> video.published_at, summary |-> summary, summarized_at |-> at,
   ttl |-> at + TTL_DAYS]

\* save_summary, second write: the unconditional put of the summary record.
ProcSavePut(w, faults) ==
  /\ proc[w].pc = "save_put"
  /\ \E ok \in Outcomes(faults) :
       LET s == proc[w]
           video == s.batch[s.i]
           summary == generate_summary(s.plan[s.i], video)[1]
       IN  IF ok
           THEN /\ table' = put_item(table, SummaryKey(video.video_id),
                                     SummaryItem(video, summary, s.state.at))
                /\ proc' = [proc EXCEPT ![w] = NextRecord([s EXCEPT !.saved = @ \cup {s.i}])]
           ELSE /\ table' = table
                /\ proc' = [proc EXCEPT ![w] = FailRecord(s)]
  /\ UNCHANGED <<queue, now, youtube, news, poller, discovery_sends, digest_sends, cleanup>>

\* -------------------------------------------------------- the newsletter

\* The items the KeyConditionExpression of get_weekly_summaries' Query
\* selects in the index GSI1: under "SUMMARY", with gsi1sk >= start.
KeyCondition(t, start) ==
  {v \in Videos :
     /\ SummaryKey(v) \in DOMAIN t
     /\ Get(t[SummaryKey(v)], "gsi1pk", "") = "SUMMARY"
     /\ t[SummaryKey(v)].gsi1sk >= start}

\* ScanIndexForward=False: by gsi1sk, newest first.
RECURSIVE NewestFirst(_, _)
NewestFirst(t, ids) ==
  IF ids = {} THEN <<>>
  ELSE LET newest == CHOOSE v \in ids :
                       \A u \in ids : t[SummaryKey(u)].gsi1sk <= t[SummaryKey(v)].gsi1sk
       IN  <<newest>> \o NewestFirst(t, ids \ {newest})

\* FilterExpression for a Query that filters nothing.
FilterExpression_none(item) == TRUE

\* FilterExpression="attribute_not_exists(newsletter_sent_at)"
FilterExpression(item) == "newsletter_sent_at" \notin DOMAIN item

\* The while loop of get_weekly_summaries over the Query calls. A call reads
\* the next QueryPageItems items of the range, returns those of them that
\* pass the filter, and a LastEvaluatedKey while items remain; summaries is
\* extended by each page.
RECURSIVE QueryPages(_, _, _)
QueryPages(t, range, summaries) ==
  IF range = <<>> THEN summaries
  ELSE LET read  == Min(QueryPageItems, Len(range))
           items == SelectSeq(SubSeq(range, 1, read),
                              LAMBDA v : FilterExpression(t[SummaryKey(v)]))
       IN  QueryPages(t, SubSeq(range, read + 1, Len(range)), summaries \o items)

\* get_weekly_summaries at time at; a ClientError in any call gives the
\* empty list.
get_weekly_summaries(t, at, ok) ==
  IF ok THEN QueryPages(t, NewestFirst(t, KeyCondition(t, at - WINDOW_DAYS)), <<>>)
  ELSE <<>>

\* lambda_handler up to the email's content: the SSM parameters, then
\* get_weekly_summaries. An exception reading the parameters ends the
\* invocation with status 500.
NewsQuery(n, faults) ==
  /\ news[n].pc = "idle"
  /\ \E configured \in Outcomes(faults) : \E ok \in Outcomes(faults) :
       news' = [news EXCEPT ![n] =
                  IF configured
                  THEN [NewsIdle EXCEPT !.pc = "send",
                                        !.summaries = get_weekly_summaries(table, now, ok)]
                  ELSE [NewsIdle EXCEPT !.pc = "return"]]
  /\ UNCHANGED <<table, queue, now, youtube, poller, proc, discovery_sends, digest_sends, cleanup>>

\* The send followed by mark_summaries_sent whatever it answered.
NewsSend_marking_unsent(n) ==
  /\ news[n].pc = "send"
  /\ \E success \in BOOLEAN :
       /\ news' = [news EXCEPT ![n] =
                  IF news[n].summaries # <<>>
                  THEN [news[n] EXCEPT !.pc = "mark", !.i = 1, !.sent_at = now,
                                       !.success = success]
                  ELSE [news[n] EXCEPT !.pc = "return", !.success = success]]
       /\ digest_sends' = [v \in Videos |->
            IF success /\ v \in {news[n].summaries[k] : k \in DOMAIN news[n].summaries}
            THEN Min(digest_sends[v] + 1, MaxDigests) ELSE digest_sends[v]]
  /\ UNCHANGED <<table, queue, now, youtube, poller, proc, discovery_sends, cleanup>>

\* The send, by Gmail SMTP or SES: it succeeds, or it returns False or raises
\* (status 500 either way). On success mark_summaries_sent begins: it reads
\* the clock once.
NewsSend(n) ==
  /\ news[n].pc = "send"
  /\ \E success \in BOOLEAN :
       /\ news' = [news EXCEPT ![n] =
                  IF success /\ news[n].summaries # <<>>
                  THEN [news[n] EXCEPT !.pc = "mark", !.i = 1, !.sent_at = now,
                                       !.success = TRUE]
                  ELSE [news[n] EXCEPT !.pc = "return", !.success = success]]
       /\ digest_sends' = [v \in Videos |->
            IF success /\ v \in {news[n].summaries[k] : k \in DOMAIN news[n].summaries}
            THEN Min(digest_sends[v] + 1, MaxDigests) ELSE digest_sends[v]]
  /\ UNCHANGED <<table, queue, now, youtube, poller, proc, discovery_sends, cleanup>>

\* if_not_exists(attr, value) of an update expression.
if_not_exists(item, attr, value) == IF attr \in DOMAIN item THEN item[attr] ELSE value

\* SentAttributes for an update that SETs newsletter_sent_at = :sent_at.
SentAttributes_overwriting(item, sent_at) ==
  [newsletter_sent_at |-> sent_at,
   newsletter_sent_count |-> if_not_exists(item, "newsletter_sent_count", 0) + 1]

\* The attributes mark_summaries_sent SETs on a summary record.
SentAttributes(item, sent_at) ==
  [newsletter_sent_at |-> if_not_exists(item, "newsletter_sent_at", sent_at),
   newsletter_sent_count |-> if_not_exists(item, "newsletter_sent_count", 0) + 1]

\* One round of mark_summaries_sent's loop: the update_item of a summary
\* record. A ClientError is counted and the loop goes on.
NewsMark(n, faults) ==
  /\ news[n].pc = "mark"
  /\ \E ok \in Outcomes(faults) :
       LET s   == news[n]
           key == SummaryKey(s.summaries[s.i])
           old == IF key \in DOMAIN table THEN table[key] ELSE NoItem
           counted == IF ok THEN [s EXCEPT !.stats.marked = @ + 1]
                      ELSE [s EXCEPT !.stats.errors = @ + 1]
       IN  /\ table' = IF ok THEN update_item(table, key, SentAttributes(old, s.sent_at))
                       ELSE table
           /\ news' = [news EXCEPT ![n] =
                         IF s.i = Len(s.summaries) THEN [counted EXCEPT !.pc = "return"]
                         ELSE [counted EXCEPT !.i = @ + 1]]
  /\ UNCHANGED <<queue, now, youtube, poller, proc, discovery_sends, digest_sends, cleanup>>

\* lambda_handler returns its status and counts.
NewsReturn(n) ==
  /\ news[n].pc = "return"
  /\ news' = [news EXCEPT ![n] = NewsIdle]
  /\ UNCHANGED <<table, queue, now, youtube, poller, proc, discovery_sends, digest_sends, cleanup>>

\* ------------------------------------------------------------ the cleanup

\* One Scan call of cleanup_permanently_failed after the key at place
\* last_key of the scan order: the keys it reads (ScanPageItems at most), and
\* the LastEvaluatedKey it returns, the place of the last key read while keys
\* remain behind it, 0 at the end of the table.
CleanupPage(t, last_key) ==
  LET places  == SelectSeq([n \in 1..Len(ScanOrder) |-> n],
                           LAMBDA n : n > last_key /\ ScanOrder[n] \in DOMAIN t)
      read    == Min(ScanPageItems, Len(places))
  IN  [keys |-> [n \in 1..read |-> ScanOrder[places[n]]],
       last_key |-> IF read < Len(places) THEN places[read] ELSE 0]

\* FilterExpression "#s = :status" with :status = PERMANENTLY_FAILED, and
\* the attributes of ProjectionExpression the loop reads.
CleanupItems(t, keys) ==
  LET matching == SelectSeq(keys, LAMBDA k : Get(t[k], "status", "") = "PERMANENTLY_FAILED")
  IN  [n \in 1..Len(matching) |->
         [a \in {"video_id", "first_failed_at"} \cap DOMAIN t[matching[n]] |-> t[matching[n]][a]]]

\* Where the loop stands once the items of a page are done: the next Scan
\* call if the page came with a LastEvaluatedKey, the return otherwise.
CleanupPageDone(s) ==
  [s EXCEPT !.pc = IF s.last_key = 0 THEN "return" ELSE "scan", !.items = <<>>, !.i = 0]

\* The loop goes to the next item of the page.
CleanupNextItem(s) ==
  IF s.i < Len(s.items) THEN [s EXCEPT !.i = @ + 1] ELSE CleanupPageDone(s)

\* cleanup_permanently_failed begins: it computes the cutoff.
CleanupStart(c) ==
  /\ cleanup[c].pc = "idle"
  /\ cleanup' = [cleanup EXCEPT ![c] =
                   [CleanupIdle EXCEPT !.pc = "scan", !.cutoff = now - CLEANUP_AGE_DAYS]]
  /\ UNCHANGED <<table, queue, now, youtube, poller, proc, news, discovery_sends, digest_sends>>

\* One Scan call. A ClientError ends the function with one error counted.
CleanupScan(c, faults) ==
  /\ cleanup[c].pc = "scan"
  /\ \E ok \in Outcomes(faults) :
       LET s     == cleanup[c]
           page  == CleanupPage(table, s.last_key)
           items == CleanupItems(table, page.keys)
           read  == [s EXCEPT !.items = items, !.last_key = page.last_key]
       IN  cleanup' = [cleanup EXCEPT ![c] =
             IF ~ok THEN [s EXCEPT !.pc = "return", !.stats.errors = @ + 1]
             ELSE IF items = <<>> THEN CleanupPageDone(read)
             ELSE [read EXCEPT !.pc = "delete", !.i = 1]]
  /\ UNCHANGED <<table, queue, now, youtube, poller, proc, news, discovery_sends, digest_sends>>

\* The item is skipped: first_failed is there and first_failed > cutoff.
CleanupSkips(item, cutoff) ==
  "first_failed_at" \in DOMAIN item /\ item.first_failed_at > cutoff

\* One round of the loop over a page, up to the first delete_item: the item
\* is counted as scanned; it is skipped, or its video record is deleted. A
\* ClientError of the delete is counted as an error.
CleanupDeleteVideo(c, faults) ==
  /\ cleanup[c].pc = "delete"
  /\ \E ok \in Outcomes(faults) :
       LET s       == cleanup[c]
           item    == s.items[s.i]
           scanned == [s EXCEPT !.stats.scanned = @ + 1]
       IN  IF CleanupSkips(item, s.cutoff)
           THEN /\ table' = table
                /\ cleanup' = [cleanup EXCEPT ![c] = CleanupNextItem(scanned)]
           ELSE IF ok
           THEN /\ table' = delete_item(table, VideoKey(Get(item, "video_id", "")))
                /\ cleanup' = [cleanup EXCEPT ![c] = [scanned EXCEPT !.pc = "delete_summary"]]
           ELSE /\ table' = table
                /\ cleanup' = [cleanup EXCEPT ![c] =
                                 CleanupNextItem([scanned EXCEPT !.stats.errors = @ + 1])]
  /\ UNCHANGED <<queue, now, youtube, poller, proc, news, discovery_sends, digest_sends>>

\* The second delete_item, of the summary record; its ClientError is passed
\* over. The video is counted as deleted.
CleanupDeleteSummary(c, faults) ==
  /\ cleanup[c].pc = "delete_summary"
  /\ \E ok \in Outcomes(faults) :
       LET s    == cleanup[c]
           item == s.items[s.i]
       IN  /\ table' = IF ok THEN delete_item(table, SummaryKey(Get(item, "video_id", "")))
                       ELSE table
           /\ cleanup' = [cleanup EXCEPT ![c] =
                            CleanupNextItem([s EXCEPT !.pc = "delete", !.stats.deleted = @ + 1])]
  /\ UNCHANGED <<queue, now, youtube, poller, proc, news, discovery_sends, digest_sends>>

\* lambda_handler returns the statistics.
CleanupReturn(c) ==
  /\ cleanup[c].pc = "return"
  /\ cleanup' = [cleanup EXCEPT ![c] = CleanupIdle]
  /\ UNCHANGED <<table, queue, now, youtube, poller, proc, news, discovery_sends, digest_sends>>

\* -------------------------------------------------------------------- time

AllIdle ==
  /\ \A p \in Pollers : poller[p].pc = "idle"
  /\ \A w \in Processors : proc[w].pc = "idle"

\* A day passes, up to the horizon. A poller or processor invocation lasts
\* minutes: it runs within one day. A newsletter invocation may be under way:
\* the times two invocations read are never the same instant, and a day
\* between them is how the model tells them apart.
Tick(horizon) ==
  /\ now < horizon
  /\ AllIdle
  /\ now' = now + 1
  /\ UNCHANGED <<table, queue, youtube, news, poller, proc, discovery_sends, digest_sends, cleanup>>

\* ---------------------------------------------------------- specifications

CleanupStep(c, faults) ==
  \/ CleanupStart(c)
  \/ CleanupScan(c, faults)
  \/ CleanupDeleteVideo(c, faults)
  \/ CleanupDeleteSummary(c, faults)
  \/ CleanupReturn(c)

NewsStep(n, faults) ==
  \/ NewsQuery(n, faults)
  \/ NewsSend(n)
  \/ NewsMark(n, faults)
  \/ NewsReturn(n)

PollerStep(p, faults) ==
  \/ PollerStart(p)
  \/ PollerCheck(p, faults)
  \/ PollerMark(p, faults)
  \/ PollerSend(p, faults)
  \/ PollerSweep(p, faults)
  \/ PollerRequeue(p, faults)

\* A step of processor invocation w, its batches of at most size messages and
\* its fetches ending in one of outcomes.
ProcStepOf(w, faults, size, outcomes) ==
  \/ ProcReceive(w, faults, size, outcomes)
  \/ ProcReturn(w)
  \/ ProcRetryState(w, faults)
  \/ ProcMarkFailed(w, faults)
  \/ ProcSaveUpdate(w, faults)
  \/ ProcSavePut(w, faults)

ProcStep(w, faults) == ProcStepOf(w, faults, MaxBatch, BasicOutcomes)

\* Spec: one video; two poller invocations and one processor invocation at a
\* time, their store and queue calls interleaved; every store or queue call
\* may raise.
Init == InitWith({"v1"})

Next ==
  \/ Tick(MaxTime)
  \/ \E p \in Pollers : PollerStep(p, TRUE)
  \/ \E w \in Processors : ProcStep(w, TRUE)

Spec == Init /\ [][Next]_vars

\* HealthySpec: one video over the whole retry schedule; no store or queue
\* call raises; two poller invocations may race, processor invocations run
\* one after another.
HealthyNext ==
  \/ Tick(MaxDays)
  \/ \E p \in Pollers : PollerStep(p, FALSE)
  \/ \E w \in Processors : ProcStep(w, FALSE)

HealthySpec == Init /\ [][HealthyNext]_vars

\* SweepSpec: two videos over the first retry window; no call raises; one
\* poller and one processor invocation at a time.
SweepInit == InitWith(Videos)

SweepNext ==
  \/ Tick(SweepDays)
  \/ PollerStep("p1", FALSE)
  \/ \E w \in Processors : ProcStep(w, FALSE)

SweepSpec == SweepInit /\ [][SweepNext]_vars

\* PipelineSpec: the whole pipeline for one video over PipelineDays days, with
\* two newsletter invocations that may overlap. Store and queue calls
\* succeed; the send of the email may fail.
PipelineNext ==
  \/ Tick(PipelineDays)
  \/ \E p \in Pollers : PollerStep(p, FALSE)
  \/ \E w \in Processors : ProcStep(w, FALSE)
  \/ \E n \in Newsletters : NewsStep(n, FALSE)

PipelineSpec == Init /\ [][PipelineNext]_vars

\* NewsSpec: the newsletter over NewsDays days, from the day both videos
\* were summarized; two invocations that may overlap; every store or
\* configuration call may raise and the send of the email may fail.
NewsInit ==
  /\ table = [k \in {VideoKey(v) : v \in Videos} \cup {SummaryKey(v) : v \in Videos} |->
               IF k[1] = "VIDEO"
               THEN ProcessedAttributes(SummaryOf(VideoDict(k[2])), 0)
                      @@ QueuedItem(VideoDict(k[2]), 0)
               ELSE SummaryItem(VideoDict(k[2]), SummaryOf(VideoDict(k[2])), 0)]
  /\ queue = EmptyBag
  /\ now = 0
  /\ youtube = Videos
  /\ poller = [p \in Pollers |-> PollerIdle]
  /\ proc = [w \in Processors |-> ProcIdle]
  /\ news = [n \in Newsletters |-> NewsIdle]
  /\ discovery_sends = [v \in Videos |-> 1]
  /\ digest_sends = [v \in Videos |-> 0]
  /\ cleanup = [c \in Cleaners |-> CleanupIdle]

\* QuerySpec: the newsletter on day WINDOW_DAYS + 1 over every table of
\* summaries of the days 0..QuerySpread, each one sent already (marked on
\* its day by an earlier newsletter) or not; every store or configuration
\* call may raise and the send of the email may fail.
SummarizedOn(v, day) ==
  [k \in {VideoKey(v), SummaryKey(v)} |->
     IF k[1] = "VIDEO"
     THEN ProcessedAttributes(SummaryOf(VideoDict(v)), day) @@ QueuedItem(VideoDict(v), 0)
     ELSE SummaryItem(VideoDict(v), SummaryOf(VideoDict(v)), day)]

SentOn(v, day) ==
  [k \in {VideoKey(v), SummaryKey(v)} |->
     IF k[1] = "VIDEO" THEN SummarizedOn(v, day)[k]
     ELSE SentAttributes(NoItem, day) @@ SummarizedOn(v, day)[k]]

StoredSummaries(v) ==
  {[k \in {} |-> NoItem]}
    \cup {SummarizedOn(v, day) : day \in 0..QuerySpread}
    \cup {SentOn(v, day) : day \in 0..QuerySpread}

QueryInit ==
  /\ \E first \in StoredSummaries("v1") : \E second \in StoredSummaries("v2") :
       table = first @@ second
  /\ queue = EmptyBag
  /\ now = WINDOW_DAYS + 1
  /\ youtube = Videos
  /\ poller = [p \in Pollers |-> PollerIdle]
  /\ proc = [w \in Processors |-> ProcIdle]
  /\ news = [n \in Newsletters |-> NewsIdle]
  /\ discovery_sends = [v \in Videos |-> 1]
  /\ digest_sends = [v \in Videos |-> 0]
  /\ cleanup = [c \in Cleaners |-> CleanupIdle]

QueryNext == \E n \in Newsletters : NewsStep(n, TRUE)

QuerySpec == QueryInit /\ [][QueryNext]_vars

\* CleanupSpec: the cleanup on day CLEANUP_AGE_DAYS + 1 over every table of
\* two videos, each one absent, QUEUED, PROCESSED, FAILED awaiting a retry
\* or PERMANENTLY_FAILED since one of the days 0..CleanupSpread, and, when
\* it failed, with or without the summary an earlier delivery saved. Store
\* calls succeed.
StoredAs(v, attributes, day, summarized) ==
  [k \in {VideoKey(v)} \cup (IF summarized THEN {SummaryKey(v)} ELSE {}) |->
     IF k[1] = "VIDEO"
     THEN attributes
            @@ (IF summarized THEN ProcessedAttributes(SummaryOf(VideoDict(v)), day)
                ELSE NoItem)
            @@ QueuedItem(VideoDict(v), day)
     ELSE SummaryItem(VideoDict(v), SummaryOf(VideoDict(v)), day)]

StoredVideo(v) ==
  {[k \in {} |-> NoItem]}
    \cup {StoredAs(v, NoItem, 0, summarized) : summarized \in BOOLEAN}
    \cup {StoredAs(v, RetryAttributes(NoTranscriptErrorLen, 1, day, day), day, summarized) :
            day \in 0..CleanupSpread, summarized \in BOOLEAN}
    \cup {StoredAs(v, ExhaustedAttributes(NoTranscriptErrorLen, MAX_TRANSCRIPT_RETRIES,
                                          day, day), day, summarized) :
            day \in 0..CleanupSpread, summarized \in BOOLEAN}

CleanupInit ==
  /\ \E first \in StoredVideo("v1") : \E second \in StoredVideo("v2") :
       table = first @@ second
  /\ queue = EmptyBag
  /\ now = CLEANUP_AGE_DAYS + 1
  /\ youtube = Videos
  /\ poller = [p \in Pollers |-> PollerIdle]
  /\ proc = [w \in Processors |-> ProcIdle]
  /\ news = [n \in Newsletters |-> NewsIdle]
  /\ cleanup = [c \in Cleaners |-> CleanupIdle]
  /\ discovery_sends = [v \in Videos |-> 1]
  /\ digest_sends = [v \in Videos |-> 0]

CleanupNext == \E c \in Cleaners : CleanupStep(c, FALSE)

CleanupSpec == CleanupInit /\ [][CleanupNext]_vars

\* The tables of CleanupInit with a work item in the queue for every video
\* that has a record: the queue delivers at least once, and the sweep sends a
\* video again while its record is FAILED.
CleanupRaceInit ==
  /\ \E first \in StoredVideo("v1") : \E second \in StoredVideo("v2") :
       table = first @@ second
  /\ queue = SetToBag({MessageBody(VideoDict(v)) : v \in {x \in Videos : VideoKey(x) \in DOMAIN table}})
  /\ now = CLEANUP_AGE_DAYS + 1
  /\ youtube = Videos
  /\ poller = [p \in Pollers |-> PollerIdle]
  /\ proc = [w \in Processors |-> ProcIdle]
  /\ news = [n \in Newsletters |-> NewsIdle]
  /\ cleanup = [c \in Cleaners |-> CleanupIdle]
  /\ discovery_sends = [v \in Videos |-> 1]
  /\ digest_sends = [v \in Videos |-> 0]

CleanupRaceNext ==
  \/ \E c \in Cleaners : CleanupStep(c, FALSE)
  \/ \E w \in Processors : ProcStepOf(w, FALSE, MaxBatch, BasicOutcomes)

\* The cleanup beside an invocation of the processor, the store answering.
CleanupRaceSpec == CleanupRaceInit /\ [][CleanupRaceNext]_vars

NewsNext ==
  \/ Tick(NewsDays)
  \/ \E n \in Newsletters : NewsStep(n, TRUE)

NewsSpec == NewsInit /\ [][NewsNext]_vars

\* BatchSpec: the processor on the day a poller invocation has discovered and
\* queued both videos, with the messages of another producer; batches of up
\* to BatchSize records; every way a fetch or a provider call can end; every
\* store or configuration call may raise.
BatchInit ==
  /\ table = [k \in {VideoKey(v) : v \in Videos} |-> QueuedItem(VideoDict(k[2]), 0)]
  /\ queue = SetToBag({MessageBody(VideoDict(v)) : v \in Videos})
  /\ now = 0
  /\ youtube = Videos
  /\ poller = [p \in Pollers |-> PollerIdle]
  /\ proc = [w \in Processors |-> ProcIdle]
  /\ news = [n \in Newsletters |-> NewsIdle]
  /\ discovery_sends = [v \in Videos |-> 1]
  /\ digest_sends = [v \in Videos |-> 0]
  /\ cleanup = [c \in Cleaners |-> CleanupIdle]

BatchNext ==
  \/ SendForeign
  \/ \E w \in Processors : ProcStepOf(w, TRUE, BatchSize, FetchOutcomes)

BatchSpec == BatchInit /\ [][BatchNext]_vars

\* The runtime ends the invocation of processor w before the handler returns
\* (timeout or kill): the locals are lost, nothing is reported, and the queue
\* delivers every message of the batch again. Each new delivery can record
\* one more failure, so invocations are ended only while the retry_count of
\* every record is below MaxRecorded.
ProcAbort(w) ==
  /\ proc[w].pc # "idle"
  /\ \A k \in DOMAIN table : Get(table[k], "retry_count", 0) < MaxRecorded
  /\ queue' = queue (+) BagOfSeq(proc[w].batch)
  /\ proc' = [proc EXCEPT ![w] = ProcIdle]
  /\ UNCHANGED <<table, now, youtube, news, poller, discovery_sends, digest_sends, cleanup>>

AbortNext ==
  \/ \E w \in Processors : ProcStepOf(w, FALSE, BatchSize, BasicOutcomes)
  \/ \E w \in Processors : ProcAbort(w)

\* The processor on the queued videos, the store answering, with invocations
\* that may be ended at any point.
AbortSpec == BatchInit /\ [][AbortNext]_vars

\* The videos for which get_transcript never finds a transcript.
Unavailable == {"v1"}

\* A step of processor w in which no transcript is found for the records of
\* the videos that have none, and the summarizer answers for the others (a
\* record it fails on is delivered again without end).
ProcStepUnavailable(w) ==
  /\ ProcStepOf(w, FALSE, MaxBatch, BasicOutcomes \ {"llm_error"})
  /\ \A k \in DOMAIN proc'[w].plan :
       proc'[w].batch[k].video_id \in Unavailable =>
         proc'[w].plan[k] = "no_transcript_found"

\* A day passes once the work of the day is done: invocations take seconds,
\* so under fair scheduling no message waits in the queue and no retry stays
\* due from one day to the next.
DayPasses ==
  /\ queue = EmptyBag
  /\ \A k \in DOMAIN table : ~Retryable(table[k], now)
  /\ Tick(MaxDays)

FairNext ==
  \/ DayPasses
  \/ PollerStep("p1", FALSE)
  \/ \E w \in Processors : ProcStepUnavailable(w)

\* Fair scheduling: the poller, one invocation after the other, keeps being
\* invoked and runs to its end, the processor takes what is in the queue and
\* runs to its end, and time passes.
Fairness ==
  /\ WF_vars(PollerStep("p1", FALSE))
  /\ \A w \in Processors : WF_vars(ProcStepUnavailable(w))
  /\ SF_vars(DayPasses)

FairSpec == SweepInit /\ [][FairNext]_vars /\ Fairness

\* Duplicate delivery: two invocations of the processor beside each other.
Racers == {"w1", "w2"}

\* The record of video v after its discovery on day 0 and, where failed says
\* so, one NO_TRANSCRIPT failure recorded the same day.
DeliveredTwice(v, failed) ==
  LET queued == [k \in {VideoKey(v)} |-> QueuedItem(VideoDict(v), 0)]
  IN  IF failed
      THEN mark_video_failed(queued, v, "NO_TRANSCRIPT", NoTranscriptErrorLen,
                             get_retry_state(queued, v, TRUE), 0, TRUE)
      ELSE queued

\* Every video is stored, fresh or failed once, and the queue holds two work
\* items for one of them: the queue delivers at least once, and the sweep
\* sends a video again at every run while its record is FAILED.
RaceInit ==
  /\ \E failed \in SUBSET Videos :
       table = [k \in {VideoKey(v) : v \in Videos} |->
                  DeliveredTwice(k[2], k[2] \in failed)[k]]
  /\ \E v \in Videos :
       queue = BagOfSeq(<<MessageBody(VideoDict(v)), MessageBody(VideoDict(v))>>)
  /\ now = 1
  /\ youtube = Videos
  /\ poller = [p \in Pollers |-> PollerIdle]
  /\ proc = [w \in Racers |-> ProcIdle]
  /\ news = [n \in Newsletters |-> NewsIdle]
  /\ discovery_sends = [v \in Videos |-> 1]
  /\ digest_sends = [v \in Videos |-> 0]
  /\ cleanup = [c \in Cleaners |-> CleanupIdle]

RaceNext == \E w \in Racers : ProcStepOf(w, FALSE, MaxBatch, BasicOutcomes)

\* Two invocations of the processor on a queue that holds a video twice, the
\* store answering.
RaceSpec == RaceInit /\ [][RaceNext]_vars

\* Day 1: the videos of failed were discovered on day 0 and have failed once,
\* so their retry is due; the others are still to be discovered.
ConfigInit ==
  /\ \E failed \in SUBSET Videos :
       table = [k \in {VideoKey(v) : v \in failed} |-> DeliveredTwice(k[2], TRUE)[k]]
  /\ queue = EmptyBag
  /\ now = 1
  /\ youtube = Videos
  /\ poller = [p \in Pollers |-> PollerIdle]
  /\ proc = [w \in Processors |-> ProcIdle]
  /\ news = [n \in Newsletters |-> NewsIdle]
  /\ discovery_sends = [v \in Videos |-> IF VideoKey(v) \in DOMAIN table THEN 1 ELSE 0]
  /\ digest_sends = [v \in Videos |-> 0]
  /\ cleanup = [c \in Cleaners |-> CleanupIdle]

ConfigNext ==
  \/ \E p \in Pollers : PollerStep(p, TRUE)
  \/ \E p \in Pollers : PollerConfigError(p)
  \/ \E p \in Pollers : PollerReturnError(p)

\* Poller invocations whose configuration, store and queue calls may fail.
ConfigSpec == ConfigInit /\ [][ConfigNext]_vars

\* ------------------------------------------------------------------ claims

\* The video record of v, the empty item when the table has none.
VideoRecord(v) == IF VideoKey(v) \in DOMAIN table THEN table[VideoKey(v)] ELSE NoItem

\* The step is poller p's execution of mark_video_queued.
MarkStep(p) == poller[p].pc = "mark" /\ poller'[p] # poller[p]

\* The step is processor w's write of a NO_TRANSCRIPT failure.
NoTranscriptWrite(w) ==
  /\ proc[w].pc = "mark_failed"
  /\ ~get_transcript(proc[w].plan[proc[w].i]).raises
  /\ proc'[w] # proc[w]

\* The video of the record processor w is working on.
CurrentVideo(w) == proc[w].batch[proc[w].i].video_id

\* The step is poller p's scan of the retry sweep.
SweepStep(p) == poller[p].pc = "sweep" /\ poller'[p] # poller[p]

\* The videos the scan of poller p's sweep step selected.
Selected(p) ==
  IF poller'[p].pc = "requeue"
  THEN {poller'[p].items[n].video_id : n \in DOMAIN poller'[p].items}
  ELSE {}

C1_Step ==
  /\ \A p \in Pollers : MarkStep(p) =>
       LET video    == Head(poller[p].videos)
           key      == VideoKey(video.video_id)
           returned == poller'[p].pc = "send"
       IN  /\ returned <=> key \notin DOMAIN table
           /\ returned => /\ key \in DOMAIN table'
                          /\ table'[key].status = "QUEUED"
                          /\ table'[key].video_id = video.video_id
           /\ ~returned => table' = table
  /\ DOMAIN table \subseteq DOMAIN table'
  /\ \A p, q \in Pollers :
       p # q /\ poller'[p].pc = "send" /\ poller'[q].pc = "send"
         => Head(poller'[p].videos).video_id # Head(poller'[q].videos).video_id

\* C1: with the store answering, an execution of mark_video_queued returns
\* true exactly when the table holds no record of the video, and then the
\* record exists with status QUEUED; on an existing record it returns false
\* and the table is unchanged. No record is ever removed, so of two executions
\* for one video, in sequence or racing, exactly the first returns true, and
\* two invocations never both hold a successful create of the same video.
C1_MarkVideoQueuedOnce == [][C1_Step]_vars

\* Two invocations race on one video: one has created the record and the
\* other, which saw no record in is_video_processed, is about to execute
\* mark_video_queued on it.
C1_Witness ==
  \E p, q \in Pollers :
    /\ p # q
    /\ poller[p].pc = "mark" /\ poller[q].pc = "send"
    /\ Head(poller[p].videos).video_id = Head(poller[q].videos).video_id
    /\ VideoRecord(Head(poller[p].videos).video_id).status = "QUEUED"

C2_Step ==
  /\ \A v \in Videos : discovery_sends'[v] <= 1
  /\ \A v \in Videos : discovery_sends'[v] # discovery_sends[v] =>
       \E p \in Pollers : /\ poller[p].pc = "send"
                          /\ Head(poller[p].videos).video_id = v
                          /\ poller'[p] # poller[p]
  /\ \A p \in Pollers : poller'[p].pc = "send" /\ poller[p].pc # "send" =>
       LET key == VideoKey(Head(poller'[p].videos).video_id)
       IN  poller[p].pc = "mark" /\ key \notin DOMAIN table /\ key \in DOMAIN table'
  /\ \A p \in Pollers :
       /\ poller[p].pc \in {"check", "mark"}
       /\ poller'[p] # poller[p]
       /\ VideoKey(Head(poller[p].videos).video_id) \in DOMAIN table
       => table' = table /\ queue' = queue /\ poller'[p].pc # "send"

\* C2: whatever the interleaving of poller invocations and whichever store or
\* queue calls raise, discovery sends at most one message per video; a message
\* is sent only by an invocation that is past a successful conditional create,
\* which it made itself on a video without a record; and an invocation that
\* comes to a video with a record, in any status, leaves the table and the
\* queue as they are and sends nothing.
C2_DiscoverySendsOnce == [][C2_Step]_vars

\* The winner has sent the message of a video while another invocation is
\* still on its way to mark_video_queued for the same video.
C2_Witness ==
  \E p \in Pollers :
    /\ poller[p].pc = "mark"
    /\ discovery_sends[Head(poller[p].videos).video_id] = 1

C3_Step ==
  \A v \in Videos :
    LET old == VideoRecord(v)
        new == VideoRecord(v)'
    IN  /\ \A w \in Processors : NoTranscriptWrite(w) /\ CurrentVideo(w) = v =>
             /\ new.retry_count = Get(old, "retry_count", 0) + 1
             /\ new.first_failed_at = Get(old, "first_failed_at", now)
        /\ "first_failed_at" \in DOMAIN old =>
             "first_failed_at" \in DOMAIN new /\ new.first_failed_at = old.first_failed_at

\* C3: with mark_video_failed calls running one after another and the store
\* answering, each NO_TRANSCRIPT call leaves retry_count one above the stored
\* value (0 when the record has none), the first call writes first_failed_at,
\* and no later step changes first_failed_at.
C3_RetryCountByOne == [][C3_Step]_vars

\* Two NO_TRANSCRIPT failures at different times: the record keeps the time
\* of the first.
C3_Witness ==
  \E v \in Videos :
    /\ Get(VideoRecord(v), "retry_count", 0) >= 2
    /\ VideoRecord(v).first_failed_at < VideoRecord(v).failed_at

C4_Step ==
  \A v \in Videos : \A w \in Processors : NoTranscriptWrite(w) /\ CurrentVideo(w) = v =>
    LET stored == Get(VideoRecord(v), "retry_count", 0)
        new    == VideoRecord(v)'
    IN  /\ new.status = "PERMANENTLY_FAILED" <=> stored + 1 >= MAX_TRANSCRIPT_RETRIES
        /\ new.status = "PERMANENTLY_FAILED" =>
             new.failure_reason = "NO_TRANSCRIPT_EXHAUSTED"
        /\ new.status # "PERMANENTLY_FAILED" =>
             /\ new.status = "FAILED"
             /\ new.failure_reason = "NO_TRANSCRIPT"
             /\ new.next_retry_at > new.failed_at
        /\ stored = 1 => new.status = "FAILED"
        /\ stored = 2 => new.status = "PERMANENTLY_FAILED"

\* C4: with calls running one after another and the store answering, a
\* NO_TRANSCRIPT failure makes the record PERMANENTLY_FAILED, with reason
\* NO_TRANSCRIPT_EXHAUSTED, if and only if the stored retry_count + 1 is at
\* least MAX_TRANSCRIPT_RETRIES; otherwise the record is FAILED with reason
\* NO_TRANSCRIPT and a next_retry_at later than failed_at. The second failure
\* leaves FAILED, the third PERMANENTLY_FAILED.
C4_ExhaustedAtMaxRetries == [][C4_Step]_vars

\* The third failure has been recorded.
C4_Witness ==
  \E v \in Videos :
    /\ Get(VideoRecord(v), "status", "") = "PERMANENTLY_FAILED"
    /\ VideoRecord(v).failure_reason = "NO_TRANSCRIPT_EXHAUSTED"
    /\ VideoRecord(v).retry_count = MAX_TRANSCRIPT_RETRIES

C5_Step ==
  \A p \in Pollers : SweepStep(p) =>
    Selected(p) = {v \in Videos : Retryable(VideoRecord(v), now)}

\* C5: the scan of the retry sweep selects exactly the videos whose record is
\* FAILED with reason NO_TRANSCRIPT and a next_retry_at that is not after now,
\* whatever the table holds.
C5_SweepSelectsExactly == [][C5_Step]_vars

C6_Step ==
  /\ \A v \in Videos : \A w \in Processors :
       /\ NoTranscriptWrite(w) /\ CurrentVideo(w) = v
       /\ Get(VideoRecord(v), "retry_count", 0) = 2
       => LET new == VideoRecord(v)'
          IN /\ new.status = "PERMANENTLY_FAILED"
             /\ new.failure_reason = "NO_TRANSCRIPT_EXHAUSTED"
             /\ new.retry_count = 3
  /\ \A p \in Pollers : SweepStep(p) =>
       \A v \in Selected(p) :
         /\ VideoRecord(v).status = "FAILED"
         /\ Get(VideoRecord(v), "retry_count", 0) < 3

\* C6: with calls running one after another and the store answering, the
\* third NO_TRANSCRIPT failure of a video leaves its record PERMANENTLY_FAILED
\* with reason NO_TRANSCRIPT_EXHAUSTED and retry_count 3; and a sweep selects
\* only FAILED records with fewer than 3 retries, so it never re-enqueues
\* that video.
C6_ExhaustedNeverRequeued == [][C6_Step]_vars

\* A video has failed three times, each retry made once its window had
\* passed (1 day, then 3 days), and a sweep is about to scan the table while
\* the next_retry_at the record still carries is not after now.
C6_Witness ==
  \E v \in Videos :
    /\ Get(VideoRecord(v), "status", "") = "PERMANENTLY_FAILED"
    /\ VideoRecord(v).retry_count = 3
    /\ VideoRecord(v).failed_at >= VideoRecord(v).first_failed_at + 4
    /\ VideoRecord(v).next_retry_at <= now
    /\ \E p \in Pollers : poller[p].pc = "sweep"

\* The record is in a state the state machine calls terminal.
Terminal(item) ==
  \/ Get(item, "status", "") \in {"PROCESSED", "PERMANENTLY_FAILED"}
  \/ /\ Get(item, "status", "") = "FAILED"
     /\ Get(item, "failure_reason", "") # "NO_TRANSCRIPT"

C7_Step ==
  \A v \in Videos :
    Terminal(VideoRecord(v)) => VideoRecord(v)'.status = VideoRecord(v).status

\* C7: no step changes the status of a record that is PROCESSED,
\* PERMANENTLY_FAILED, or FAILED with a reason other than NO_TRANSCRIPT.
C7_TerminalStatusKept == [][C7_Step]_vars

\* C8 as stated: a record carries next_retry_at if and only if it is FAILED
\* with reason NO_TRANSCRIPT.
C8_NextRetryIffPending ==
  \A v \in Videos : VideoKey(v) \in DOMAIN table =>
    ("next_retry_at" \in DOMAIN VideoRecord(v)
       <=> /\ VideoRecord(v).status = "FAILED"
           /\ Get(VideoRecord(v), "failure_reason", "") = "NO_TRANSCRIPT")

\* C8, amended: a record that is FAILED with reason NO_TRANSCRIPT carries
\* next_retry_at and a QUEUED record carries none; next_retry_at is never
\* removed, so a record of any status carries it exactly when a NO_TRANSCRIPT
\* failure has been recorded on it (it carries retry_count).
C8_NextRetryOnceScheduled ==
  \A v \in Videos : VideoKey(v) \in DOMAIN table =>
    LET item == VideoRecord(v)
    IN  /\ item.status = "FAILED" /\ item.failure_reason = "NO_TRANSCRIPT"
             => "next_retry_at" \in DOMAIN item
        /\ item.status = "QUEUED" => "next_retry_at" \notin DOMAIN item
        /\ "next_retry_at" \in DOMAIN item <=> "retry_count" \in DOMAIN item

\* Retries are exhausted and the record still carries the next_retry_at of
\* the failure before.
C8_Witness ==
  \E v \in Videos :
    /\ Get(VideoRecord(v), "status", "") = "PERMANENTLY_FAILED"
    /\ "next_retry_at" \in DOMAIN VideoRecord(v)

C9_Step ==
  \A v \in Videos :
    LET old == VideoRecord(v)
        new == VideoRecord(v)'
    IN  /\ Get(new, "retry_count", 0) >= Get(old, "retry_count", 0)
        /\ "first_failed_at" \in DOMAIN old =>
             "first_failed_at" \in DOMAIN new /\ new.first_failed_at = old.first_failed_at

\* C9: whatever the interleaving and whichever store calls raise, no step
\* lowers the retry_count of a record or changes a first_failed_at it carries.
C9_RetryStateKept == [][C9_Step]_vars

C10_Step ==
  \A v \in Videos : \A w \in Processors : NoTranscriptWrite(w) /\ CurrentVideo(w) = v =>
    LET r   == Get(VideoRecord(v), "retry_count", 0)
        new == VideoRecord(v)'
    IN  new.status = "FAILED" =>
          /\ new.failed_at = now
          /\ new.next_retry_at = new.failed_at + <<1, 3, 5>>[Min(r, 2) + 1]
          /\ r = 0 => new.next_retry_at = now + 1
          /\ r = 1 => new.next_retry_at = now + 3

\* C10: with calls running one after another and the store answering, a
\* NO_TRANSCRIPT failure that does not exhaust the retries sets next_retry_at
\* to the time of the failure plus schedule[min(r, 2)] days, r being the
\* retry_count stored before the call and the schedule 1, 3, 5 days: 1 day
\* after the first failure, 3 days after the second.
C10_NextRetryFromSchedule == [][C10_Step]_vars

\* The second failure has scheduled the retry 3 days later.
C10_Witness ==
  \E v \in Videos :
    /\ Get(VideoRecord(v), "status", "") = "FAILED"
    /\ Get(VideoRecord(v), "retry_count", 0) = 2
    /\ VideoRecord(v).next_retry_at = VideoRecord(v).failed_at + 3

\* ------------------------------------------------ the processor's outcomes

\* The record processor w is working on, and the outcome drawn for it.
CurrentRecord(w) == proc[w].i
CurrentOutcome(w) == proc[w].plan[proc[w].i]

C11_Step ==
  \A v \in Videos : \A w \in Processors :
    /\ NoTranscriptWrite(w)
    /\ CurrentVideo(w) = v
    /\ CurrentOutcome(w) \in {"transcripts_disabled", "video_unavailable"}
    => LET old == VideoRecord(v)
           new == VideoRecord(v)'
       IN  new # old =>
             /\ new.status = "FAILED"
             /\ new.failure_reason = IF CurrentOutcome(w) = "transcripts_disabled"
                                     THEN "TRANSCRIPTS_DISABLED" ELSE "VIDEO_UNAVAILABLE"
             /\ "next_retry_at" \notin DOMAIN new
             /\ Get(new, "retry_count", 0) = Get(old, "retry_count", 0)

\* C11: when the transcript library raises TranscriptsDisabled or
\* VideoUnavailable, the failure the processor writes carries the matching
\* reason (TRANSCRIPTS_DISABLED, VIDEO_UNAVAILABLE) and is terminal: it sets
\* no next_retry_at and leaves retry_count as it was.
C11_TerminalReasons == [][C11_Step]_vars

\* The records batch_item_failures names.
Failures(w) == {proc[w].failures[k] : k \in DOMAIN proc[w].failures}

\* Processor w is about to return from an invocation that ran the loop over
\* its records (the configuration was read).
Returning(w) == proc[w].pc = "return" /\ proc[w].i > 0

\* The stored video of record n of processor w's batch.
VideoOfRecord(w, n) == VideoRecord(proc[w].batch[n].video_id)

\* C12: when the transcript fetch of a record ends in an exception that is
\* neither a block nor a missing transcript (a rate-limit response that
\* lasted, the Transient outcome), the invocation returns the record as a
\* batch failure and the video record's status, failure_reason and
\* retry_count are what they were when the invocation began.
C12_TransientFetchUnrecorded ==
  \A w \in Processors : Returning(w) =>
    \A n \in 1..Len(proc[w].batch) : proc[w].plan[n] = "fetch_error" =>
      /\ n \in Failures(w)
      /\ \A attr \in {"status", "failure_reason", "retry_count"} :
           Get(VideoOfRecord(w, n), attr, <<>>) = Get(proc[w].before[n], attr, <<>>)

C13_Step ==
  \A v \in Videos : \A w \in Processors :
    /\ proc[w].pc = "mark_failed"
    /\ CurrentOutcome(w) = "ip_blocked"
    /\ CurrentVideo(w) = v
    /\ proc'[w] # proc[w]
    => /\ VideoRecord(v)'.status = "FAILED"
       /\ VideoRecord(v)'.failure_reason = "YOUTUBE_BLOCKED"
       /\ CurrentRecord(w) \notin proc'[w].summarized
       /\ CurrentRecord(w) \notin {proc'[w].failures[k] : k \in DOMAIN proc'[w].failures}

\* C13: with the store answering, a transcript fetch that raises
\* TranscriptBlockedError leaves the video FAILED with failure_reason
\* YOUTUBE_BLOCKED; the summarizer is not called for the record and the record
\* is not among the batch failures.
C13_BlockedIsRecorded == [][C13_Step]_vars

\* An invocation returns after a blocked fetch: the video is FAILED as
\* YOUTUBE_BLOCKED, nothing was summarized and nothing is to be redelivered.
C13_Witness ==
  \E w \in Processors :
    /\ Returning(w)
    /\ proc[w].plan[1] = "ip_blocked"
    /\ VideoOfRecord(w, 1).status = "FAILED"
    /\ VideoOfRecord(w, 1).failure_reason = "YOUTUBE_BLOCKED"
    /\ proc[w].summarized = {}
    /\ proc[w].failures = <<>>

\* C14: a record whose summarizer call gave no usable text (None for an
\* error, an unknown provider or a missing result; the empty string) is
\* returned as a batch failure, and save_summary is not entered for it: neither
\* the video record nor the summary record is written.
C14_NoUsableTextIsFailure ==
  \A w \in Processors :
    /\ proc[w].pc \in {"save_update", "save_put"} =>
         CurrentOutcome(w) \notin {"llm_error", "llm_empty"}
    /\ Returning(w) =>
         \A n \in 1..Len(proc[w].batch) :
           proc[w].plan[n] \in {"llm_error", "llm_empty"} => n \in Failures(w)

\* C15: a record returned as a batch failure because the summarizer failed or
\* because save_summary failed leaves the video record's status, when the
\* invocation returns, what it was when the invocation began.
C15_FailureKeepsStatus ==
  \A w \in Processors : Returning(w) =>
    \A n \in Failures(w) :
      proc[w].plan[n] \in {"llm_error", "llm_empty", "llm_text"} =>
        Get(VideoOfRecord(w, n), "status", "") = Get(proc[w].before[n], "status", "")

\* C16: a record whose body cannot be parsed is dropped. The handler makes no
\* store call for it, the invocation does not return it as a batch failure,
\* and the loop goes on to the end of the batch: every record whose transcript
\* was fetched has been handed to the summarizer when the invocation returns.
C16_UnparseableDropped ==
  \A w \in Processors :
    /\ proc[w].pc \in {"retry_state", "mark_failed", "save_update", "save_put"} =>
         proc[w].batch[proc[w].i] # Unparseable
    /\ Returning(w) =>
         /\ proc[w].i = Len(proc[w].batch) + 1
         /\ \A n \in 1..Len(proc[w].batch) :
              /\ proc[w].batch[n] = Unparseable => n \notin Failures(w)
              /\ proc[w].plan[n] \in {"llm_error", "llm_empty", "llm_text"} =>
                   n \in proc[w].summarized

\* An invocation returns from a batch whose first record was unparseable: the
\* second was summarized and saved, and nothing is to be redelivered.
C16_Witness ==
  \E w \in Processors :
    /\ Returning(w)
    /\ Len(proc[w].batch) = 2
    /\ proc[w].batch[1] = Unparseable
    /\ 2 \in proc[w].saved
    /\ VideoOfRecord(w, 2).status = "PROCESSED"
    /\ proc[w].failures = <<>>

\* The records of processor w's batch that ended in a summarizer failure, a
\* persistence failure (save_summary was called and did not return True) or
\* an unexpected exception.
EndedInFailure(w) ==
  {n \in 1..Len(proc[w].batch) :
     \/ proc[w].plan[n] = "llm_error"
     \/ proc[w].plan[n] \in {"llm_empty", "llm_text"} /\ n \notin proc[w].saved
     \/ proc[w].batch[n] = Incomplete}

C17_Step ==
  \A w \in Processors : proc[w].pc = "return" =>
    /\ Cardinality(Failures(w)) = Len(proc[w].failures)
    /\ IF proc[w].i > 0
       THEN /\ proc[w].i = Len(proc[w].batch) + 1
            /\ Failures(w) = EndedInFailure(w)
       ELSE Failures(w) = 1..Len(proc[w].batch)
    /\ proc'[w].pc = "idle" =>
         \A m \in BagToSet(queue') \cup {proc[w].batch[n] : n \in 1..Len(proc[w].batch)} :
           CopiesIn(m, queue') =
             CopiesIn(m, queue) + Cardinality({n \in Failures(w) : proc[w].batch[n] = m})

\* C17: batchItemFailures names a record exactly when the record ended in a
\* summarizer failure, a persistence failure or an unexpected exception (all
\* the records when the configuration could not be read), each at most once;
\* the loop reaches every record of the batch whatever became of the earlier
\* ones; the records not named are acknowledged: only the named ones come
\* back to the queue.
C17_BatchFailuresExact == [][C17_Step]_vars

\* An invocation returns from a batch of two: the first record's summarizer
\* failed and is the one batch failure, the second was saved all the same.
C17_Witness ==
  \E w \in Processors :
    /\ Returning(w)
    /\ Len(proc[w].batch) = 2
    /\ proc[w].plan[1] = "llm_error"
    /\ proc[w].failures = <<1>>
    /\ 2 \in proc[w].saved

C18_Step ==
  \A v \in Videos : \A w \in Processors :
    /\ proc[w].pc = "save_put"
    /\ CurrentVideo(w) = v
    /\ CurrentRecord(w) \in proc'[w].saved
    => LET video   == proc[w].batch[proc[w].i]
           summary == IF CurrentOutcome(w) = "llm_empty" THEN <<>> ELSE <<"summary", v>>
           new     == VideoRecord(v)'
           record  == table'[SummaryKey(v)]
       IN  /\ new.status = "PROCESSED"
           /\ "processed_at" \in DOMAIN new
           /\ new.summary = summary
           /\ SummaryKey(v) \in DOMAIN table'
           /\ record.summary = summary
           /\ \A attr \in {"video_id", "title", "channel_id", "channel_title", "published_at"} :
                record[attr] = video[attr]
           /\ record.summarized_at = new.processed_at

\* C18: when save_summary returns True, the video record is PROCESSED and
\* carries processed_at and the summary text, and the summary record exists
\* with the same summary, the same time and the video's video_id, title,
\* channel_id, channel_title and published_at.
C18_SavedSummaryStored == [][C18_Step]_vars

\* A summary was saved: the video is PROCESSED with it and the summary record
\* holds the same text.
C18_Witness ==
  \E w \in Processors :
    /\ Returning(w)
    /\ 1 \in proc[w].saved
    /\ proc[w].plan[1] = "llm_text"
    /\ VideoOfRecord(w, 1).status = "PROCESSED"
    /\ SummaryKey(proc[w].batch[1].video_id) \in DOMAIN table
    /\ table[SummaryKey(proc[w].batch[1].video_id)].summary = VideoOfRecord(w, 1).summary

\* ------------------------------------------------ the newsletter's marks

\* The summary record of video v.
SummaryRecord(v) == IF SummaryKey(v) \in DOMAIN table THEN table[SummaryKey(v)] ELSE NoItem

\* The step is newsletter n's update of the summary record of v in
\* mark_summaries_sent, and the update went through.
MarkedSent(n, v) ==
  /\ news[n].pc = "mark"
  /\ news[n].summaries[news[n].i] = v
  /\ news'[n].stats.marked = news[n].stats.marked + 1

C19_Step ==
  \A v \in Videos : \A n \in Newsletters : MarkedSent(n, v) =>
    LET old == SummaryRecord(v)
        new == SummaryRecord(v)'
    IN  /\ new.newsletter_sent_count = Get(old, "newsletter_sent_count", 0) + 1
        /\ new.newsletter_sent_at = IF "newsletter_sent_at" \in DOMAIN old
                                    THEN old.newsletter_sent_at ELSE news[n].sent_at

\* C19: marking a summary as sent keeps the first newsletter_sent_at. The
\* first mark_summaries_sent on a summary record sets newsletter_sent_at to
\* the time it read and newsletter_sent_count to 1; a second one leaves
\* newsletter_sent_at as the first set it and makes the count 2.
C19_FirstSentAtKept == [][C19_Step]_vars

\* Two invocations marked the same summary, the second one a day after the
\* first: the record carries the first day and the count 2.
C19_Witness ==
  \E v \in Videos : \E n \in Newsletters :
    /\ news[n].pc = "return"
    /\ news[n].sent_at = 1
    /\ news[n].stats.marked = Len(news[n].summaries)
    /\ v \in {news[n].summaries[k] : k \in DOMAIN news[n].summaries}
    /\ Get(SummaryRecord(v), "newsletter_sent_at", 1) = 0
    /\ Get(SummaryRecord(v), "newsletter_sent_count", 0) = 2

C20_Step ==
  \A v \in Videos : "newsletter_sent_at" \in DOMAIN SummaryRecord(v) =>
    /\ "newsletter_sent_at" \in DOMAIN SummaryRecord(v)'
    /\ SummaryRecord(v)'.newsletter_sent_at = SummaryRecord(v).newsletter_sent_at

\* C20: once the summary record of a video carries newsletter_sent_at, no
\* step of any handler changes or removes it: not a later mark_summaries_sent,
\* not a later save_summary of the same video.
C20_SentAtNeverLost == [][C20_Step]_vars

\* ---------------------------------------------------- the digests' contents

\* C21: a summary goes out in one newsletter only. Once an email whose
\* digest held the summary of a video has been sent with success, no other
\* email sent with success, by a later or an overlapping invocation, holds it.
C21_SummarySentOnce == \A v \in Videos : digest_sends[v] <= 1

\* The step is newsletter n's call of get_weekly_summaries.
Queried(n) == news[n].pc = "idle" /\ news'[n].pc = "send"

C22_Step ==
  \A n \in Newsletters : Queried(n) =>
    \A k \in DOMAIN news'[n].summaries :
      /\ SummaryKey(news'[n].summaries[k]) \in DOMAIN table
      /\ "newsletter_sent_at" \notin DOMAIN table[SummaryKey(news'[n].summaries[k])]

\* C22: get_weekly_summaries returns no summary whose record carries
\* newsletter_sent_at when the query reads it, whatever the table holds and
\* however many pages the result comes in.
C22_SentNotCompiled == [][C22_Step]_vars

\* A query that took two pages, over a sent summary and an unsent one of the
\* window, has returned the unsent one alone.
C22_Witness ==
  \E n \in Newsletters : \E u, v \in Videos :
    /\ news[n].pc = "send"
    /\ news[n].summaries = <<u>>
    /\ "newsletter_sent_at" \notin DOMAIN SummaryRecord(u)
    /\ "newsletter_sent_at" \in DOMAIN SummaryRecord(v)
    /\ SummaryRecord(v).gsi1sk > now - WINDOW_DAYS
    /\ QueryPageItems < 2

C23_Step ==
  \A n \in Newsletters : Queried(n) =>
    \A k \in DOMAIN news'[n].summaries :
      now - SummaryRecord(news'[n].summaries[k]).summarized_at < 7

\* C23: get_weekly_summaries returns a summary only if it was summarized
\* strictly inside the last 7 days: one that is exactly 7 days old is left
\* out, as is every older one; one younger by the smallest step is returned.
C23_StrictlyInsideWindow == [][C23_Step]_vars

\* ------------------------------------------------------------- the cleanup

\* The video of the item cleanup invocation c is at.
CleanupVideo(c) == cleanup[c].items[cleanup[c].i].video_id

C24_Step ==
  /\ \A v \in Videos : VideoKey(v) \in DOMAIN table /\ VideoKey(v) \notin DOMAIN table' =>
       /\ VideoRecord(v).status = "PERMANENTLY_FAILED"
       /\ "first_failed_at" \in DOMAIN VideoRecord(v)
       /\ VideoRecord(v).first_failed_at < now - 30
  /\ \A v \in Videos : \A c \in Cleaners :
       /\ cleanup[c].pc = "delete"
       /\ CleanupVideo(c) = v
       /\ cleanup'[c].stats.scanned > cleanup[c].stats.scanned
       => VideoRecord(v).status = "PERMANENTLY_FAILED"

\* C24: the cleanup deletes a video record only if it is PERMANENTLY_FAILED
\* and its first_failed_at is older than now minus the 30 days of
\* CLEANUP_AGE_DAYS; a QUEUED, PROCESSED or FAILED record is neither deleted
\* nor counted as scanned.
C24_DeletesOnlyOldFailures == [][C24_Step]_vars

C25_Step ==
  \A v \in Videos : \A c \in Cleaners :
    /\ VideoKey(v) \in DOMAIN table /\ VideoKey(v) \notin DOMAIN table' /\ cleanup'[c] # cleanup[c]
       => cleanup'[c].pc = "delete_summary" /\ CleanupVideo(c)' = v
    /\ cleanup[c].pc = "delete_summary" /\ CleanupVideo(c) = v /\ cleanup'[c] # cleanup[c]
       => /\ SummaryKey(v) \notin DOMAIN table'
          /\ cleanup'[c].stats.deleted = cleanup[c].stats.deleted + 1
          /\ cleanup'[c].stats.errors = cleanup[c].stats.errors

\* C25: with the store answering, the cleanup follows every delete of a video
\* record with the delete of the summary record of the same video: the
\* summary record is gone afterwards if there was one, and whether there was
\* one or not the video is counted as deleted and no error is counted.
C25_SummaryDeletedToo == [][C25_Step]_vars

\* The cleanup has deleted one video and what summary record it had, has
\* just deleted the record of a second one, which has no summary record, and
\* has counted no error.
C25_Witness ==
  \E c \in Cleaners :
    /\ cleanup[c].pc = "delete_summary"
    /\ cleanup[c].stats = [scanned |-> 2, deleted |-> 1, errors |-> 0]
    /\ DOMAIN table = {}

\* The step of poller p that sends the next video of its retry sweep.
RequeueStep(p) == poller[p].pc = "requeue" /\ poller'[p] # poller[p]

\* The video that poller p's sweep is about to re-enqueue.
RequeuedVideo(p) == Head(poller[p].items).video_id

C26_Step ==
  \A p \in Pollers : RequeueStep(p) =>
    \A v \in Videos :
      (RequeuedVideo(p) = v /\ queue' # queue) =>
        Get(VideoRecord(v)', "status", "") = "QUEUED"

\* C26: once the retry sweep has re-enqueued a video, the record of that video
\* has status QUEUED.
C26_RequeuedIsQueued == [][C26_Step]_vars

\* The attributes of a record that hold its retry state.
RetryState(item) ==
  [a \in {"retry_count", "first_failed_at", "next_retry_at"} \cap DOMAIN item |-> item[a]]

C27_Step ==
  \/ table' = table
  \/ /\ \A p \in Pollers : SweepStep(p) \/ RequeueStep(p) =>
          \A v \in Videos : RetryState(VideoRecord(v)') = RetryState(VideoRecord(v))
     /\ \A v \in Videos :
          RetryState(VideoRecord(v)') # RetryState(VideoRecord(v)) =>
            \E w \in Processors : NoTranscriptWrite(w) /\ CurrentVideo(w) = v

\* C27: no step of the retry sweep changes the retry_count, the
\* first_failed_at or the next_retry_at of a record; whichever calls raise,
\* these attributes change only in the step in which a processor records a
\* NO_TRANSCRIPT failure of the video.
C27_SweepKeepsRetryState == [][C27_Step]_vars

\* A video has failed once, a sweep has re-enqueued it once its retry was due
\* and has ended, and the record still carries the retry state of the failure.
C27_Witness ==
  \E v \in Videos :
    /\ \A p \in Pollers : poller[p].pc = "idle"
    /\ Get(VideoRecord(v), "status", "") = "FAILED"
    /\ BagIn(MessageBody(RetryVideo(VideoRecord(v), now)), queue)
    /\ RetryState(VideoRecord(v)) =
         [retry_count |-> 1, first_failed_at |-> 0, next_retry_at |-> 1]
    /\ now >= 1

\* A work item for video v is in the queue or in the batch of a processor.
Outstanding(v) ==
  \/ \E m \in BagToSet(queue) : Get(m, "video_id", "") = v
  \/ \E w \in Processors : \E k \in DOMAIN proc[w].batch :
       Get(proc[w].batch[k], "video_id", "") = v

C28_Step ==
  \A p \in Pollers : RequeueStep(p) =>
    \A v \in Videos : (RequeuedVideo(p) = v /\ queue' # queue) => ~Outstanding(v)

\* C28: with calls that succeed, the retry sweep enqueues a video only when no
\* work item for it is still in the queue or with a processor: between two
\* recordings of a failure it enqueues the video at most once.
C28_RequeuedOncePerFailure == [][C28_Step]_vars

\* The records of processor w's batch that mark_video_failed was called for.
Recorded(w) == {proc[w].recorded[k] : k \in DOMAIN proc[w].recorded}

\* C29: in an invocation of the processor mark_video_failed is called at most
\* once for a record of the batch, and a record it was called for is not
\* among the batch item failures the handler returns.
C29_RecordedOnceNotReported ==
  \A w \in Processors :
    /\ Cardinality(Recorded(w)) = Len(proc[w].recorded)
    /\ Recorded(w) \cap Failures(w) = {}

\* An invocation returns for a batch of two records: a failure was recorded
\* for the first, whose message is not asked for again, and the second is
\* reported as a batch item failure.
C29_Witness ==
  \E w \in Processors :
    /\ Returning(w)
    /\ Len(proc[w].batch) = 2
    /\ proc[w].recorded = <<1>>
    /\ proc[w].failures = <<2>>

\* Racer w has recorded a NO_TRANSCRIPT failure of video v, starting from the
\* record the invocation found when it began.
RecordedNoTranscript(w, v) ==
  /\ proc[w].recorded = <<1>>
  /\ proc[w].batch[1].video_id = v
  /\ ~get_transcript(proc[w].plan[1]).raises

C30_Step ==
  \A v \in Videos : \A w \in Racers : \A u \in Racers \ {w} :
    ( /\ NoTranscriptWrite(w) /\ CurrentVideo(w) = v
      /\ RecordedNoTranscript(u, v)
      /\ proc[u].before = proc[w].before )
    => VideoRecord(v)'.retry_count = Get(proc[w].before[1], "retry_count", 0) + 2

\* C30: when two invocations of the processor that began on the same record
\* of a video both record a NO_TRANSCRIPT failure of it, the retry_count
\* stored after the second write is 2 higher than the one they began with,
\* whatever the order of their reads and writes.
C30_RetryCountIncrements == [][C30_Step]_vars

\* The step ends processor w's invocation while it works on a record.
AbortedAtRecord(w) ==
  /\ proc[w].pc \notin {"idle", "return"}
  /\ proc'[w].pc = "idle"

C31_Step ==
  \A w \in Processors : AbortedAtRecord(w) =>
    \A v \in Videos : CurrentVideo(w) = v =>
      Get(VideoRecord(v)', "status", "") =
        Get(proc[w].before[CurrentRecord(w)], "status", "")

\* C31: when an invocation of the processor is ended while it works on a
\* record of its batch, the video record of that record has the status it had
\* when the invocation began.
C31_AbortKeepsStatus == [][C31_Step]_vars

\* Video v has a record that is not PERMANENTLY_FAILED.
Pending(v) ==
  /\ VideoKey(v) \in DOMAIN table
  /\ VideoRecord(v).status # "PERMANENTLY_FAILED"

SweepAfterDiscovery(p) ==
  /\ (poller[p].pc # "sweep" /\ poller'[p].pc = "sweep") =>
       /\ poller[p].pc \in {"idle", "check", "mark", "send"}
       /\ Len(poller[p].videos) <= 1
       /\ poller'[p].videos = <<>>
  /\ poller[p].pc = "sweep" => poller'[p].pc \in {"sweep", "requeue", "idle"}
  /\ poller[p].pc = "requeue" => poller'[p].pc \in {"requeue", "idle"}

\* The step ends an invocation of poller p.
PollerEnds(p) == poller[p].pc # "idle" /\ poller'[p].pc = "idle"

C33_Step ==
  \A p \in Pollers :
    /\ SweepAfterDiscovery(p)
    /\ PollerEnds(p) => poller[p].pc \in {"sweep", "requeue"}

\* C33: every invocation of the poller runs the retry sweep exactly once: it
\* ends only out of the sweep, which it enters once the channel loop has no
\* video left and never leaves for the channel loop, whichever calls fail.
C33_SweepOncePerInvocation == [][C33_Step]_vars

C33_AmendedStep ==
  \A p \in Pollers :
    /\ SweepAfterDiscovery(p)
    /\ PollerEnds(p) => poller[p].pc \in {"sweep", "requeue", "error"}
    /\ poller[p].pc = "error" => poller'[p].pc \in {"error", "idle"}
    /\ poller'[p].pc = "error" => poller[p].pc \in {"error", "idle"}

\* C33 (amended): an invocation of the poller that has read its configuration
\* runs the retry sweep exactly once, after the channel loop has no video
\* left, whichever store, queue or search calls fail; an invocation that
\* cannot read its configuration searches no channel, runs no sweep and ends.
C33_SweepOncePerConfiguredInvocation == [][C33_AmendedStep]_vars

\* The search of channel c1 found nothing although v1 is there, v2 of channel
\* c2 was queued by the same invocation, and the invocation is at its sweep.
C33_Witness ==
  \E p \in Pollers :
    /\ poller[p].pc = "sweep"
    /\ youtube = Videos
    /\ VideoKey("v1") \notin DOMAIN table
    /\ Get(VideoRecord("v2"), "status", "") = "QUEUED"
    /\ VideoRecord("v2").queued_at = now

\* The step is poller p's send_to_sqs of a discovered video.
SendStep(p) == poller[p].pc = "send" /\ poller'[p] # poller[p]

\* Video v has a QUEUED record, was never enqueued, and no invocation of the
\* poller is about to send it.
Stranded(v) ==
  /\ Get(VideoRecord(v), "status", "") = "QUEUED"
  /\ discovery_sends[v] = 0
  /\ \A m \in BagToSet(queue) : Get(m, "video_id", "") # v
  /\ \A p \in Pollers : poller[p].pc = "send" => Head(poller[p].videos).video_id # v

C34_Step ==
  /\ \A p \in Pollers : SendStep(p) /\ queue' = queue =>
       /\ poller'[p].errors = poller[p].errors + 1
       /\ \A v \in Videos : Head(poller[p].videos).video_id = v => Stranded(v)'
  /\ \A v \in Videos : Stranded(v) => Stranded(v)'

\* C34: when send_to_sqs fails for a video that mark_video_queued has just
\* created, the record stays QUEUED, the invocation counts one error, and,
\* whichever calls fail later, no invocation of the poller enqueues the video
\* afterwards.
C34_FailedSendStrands == [][C34_Step]_vars

\* The send of a video failed, the invocation has counted the error and gone
\* on to its sweep, and the record is QUEUED with nothing in the queue.
C34_Witness ==
  \E v \in Videos : \E p \in Pollers :
    /\ Stranded(v)
    /\ VideoRecord(v).queued_at = now
    /\ poller[p].pc = "sweep"
    /\ poller[p].errors = 1

\* The step is processor w's write of a YOUTUBE_BLOCKED failure.
BlockedWrite(w) ==
  /\ proc[w].pc = "mark_failed"
  /\ get_transcript(proc[w].plan[proc[w].i]).raises
  /\ proc'[w] # proc[w]

\* The attributes the write of a failure that is not retried sets.
TerminalSet == {"status", "error", "failure_reason", "failed_at"}

C35_Step ==
  \A v \in Videos : \A w \in Processors : BlockedWrite(w) /\ CurrentVideo(w) = v =>
    LET old == VideoRecord(v)
        new == VideoRecord(v)'
    IN  /\ new.status = "FAILED"
        /\ new.failure_reason = "YOUTUBE_BLOCKED"
        /\ new.failed_at = now
        /\ new.error = 500
        /\ DOMAIN new = DOMAIN old \cup TerminalSet
        /\ \A a \in DOMAIN old \ TerminalSet : new[a] = old[a]
        /\ RetryState(new) = RetryState(old)
        /\ \A k \in DOMAIN table \ {VideoKey(v)} :
             k \in DOMAIN table' /\ table'[k] = table[k]
        /\ DOMAIN table' = DOMAIN table

\* C35: with the store answering, mark_video_failed for a reason other than
\* NO_TRANSCRIPT makes one write, which sets status FAILED, failure_reason,
\* failed_at and error, cut to 500 characters, on the record of the video and
\* leaves every other attribute, retry_count, first_failed_at and
\* next_retry_at among them, and every other record as they were.
C35_TerminalWriteOnly == [][C35_Step]_vars

\* A video whose first failure was NO_TRANSCRIPT was sent again by the sweep
\* and then blocked: the record is FAILED as YOUTUBE_BLOCKED and still has
\* the retry state of the first failure.
C35_Witness ==
  \E v \in Videos :
    /\ Get(VideoRecord(v), "failure_reason", "") = "YOUTUBE_BLOCKED"
    /\ VideoRecord(v).failed_at >= 1
    /\ RetryState(VideoRecord(v)) =
         [retry_count |-> 1, first_failed_at |-> 0, next_retry_at |-> 1]

\* The summaries of the email of newsletter invocation n.
Included(n) == {news[n].summaries[k] : k \in DOMAIN news[n].summaries}

C36_Step ==
  /\ \A v \in Videos :
       SummaryRecord(v)' # SummaryRecord(v) =>
         \E n \in Newsletters :
           /\ news[n].pc = "mark"
           /\ news[n].success
           /\ news[n].summaries[news[n].i] = v
           /\ \A a \in DOMAIN SummaryRecord(v) \ {"newsletter_sent_at", "newsletter_sent_count"} :
                SummaryRecord(v)'[a] = SummaryRecord(v)[a]
  /\ \A n \in Newsletters :
       (news[n].pc = "mark" /\ news'[n].pc = "return" /\ news'[n].stats.errors = 0) =>
         /\ news'[n].stats.marked = Len(news[n].summaries)
         /\ \A v \in Included(n) : "newsletter_sent_at" \in DOMAIN SummaryRecord(v)'

\* C36: a summary record changes only in a step of mark_summaries_sent of an
\* invocation whose send returned success, the record being one of the
\* summaries of that email and the change being to its sent markers; when no
\* write of the store fails, every summary of the email is marked by the time
\* the invocation returns. After a send that failed or raised no summary
\* record changes.
C36_MarkedOnlyAfterSend == [][C36_Step]_vars

\* One invocation's send failed and it returns with its two summaries
\* unmarked, while another one's send succeeded and it has marked the first
\* of the same two summaries.
C36_Witness ==
  \E n \in Newsletters : \E m \in Newsletters \ {n} :
    /\ news[n].pc = "return" /\ ~news[n].success /\ Len(news[n].summaries) = 2
    /\ news[m].pc = "mark" /\ news[m].i = 2 /\ news[m].stats.marked = 1
    /\ news[m].summaries = news[n].summaries
    /\ "newsletter_sent_at" \in DOMAIN SummaryRecord(news[m].summaries[1])
    /\ "newsletter_sent_at" \notin DOMAIN SummaryRecord(news[m].summaries[2])

C37_Step ==
  \A v \in Videos : \A w \in Processors : NoTranscriptWrite(w) /\ CurrentVideo(w) = v =>
    LET r   == Get(VideoRecord(v), "retry_count", 0)
        new == VideoRecord(v)'
    IN  r < Len(RETRY_SCHEDULE_DAYS) =>
          /\ new.status = "FAILED"
          /\ "next_retry_at" \in DOMAIN new
          /\ new.next_retry_at = new.failed_at + RETRY_SCHEDULE_DAYS[r + 1]

\* C37: with calls running one after another and the store answering, each
\* of the first three NO_TRANSCRIPT failures of a video leaves it FAILED with
\* a retry scheduled by the entry of the schedule for that failure: 1 day
\* after the first, 3 days after the second, 5 days after the third.
C37_WholeScheduleUsed == [][C37_Step]_vars

\* C38: in every reachable state the retry_count of a record is at most
\* MAX_TRANSCRIPT_RETRIES, duplicate work items in the queue or not.
C38_RetryCountBounded ==
  \A v \in Videos : Get(VideoRecord(v), "retry_count", 0) <= MAX_TRANSCRIPT_RETRIES

\* C39: when an invocation of the processor returns, the video record of
\* every well-formed record of the batch that is not among the batch item
\* failures is PROCESSED, FAILED or PERMANENTLY_FAILED, whichever store calls
\* raised.
C39_AcknowledgedIsPersisted ==
  \A w \in Processors : Returning(w) =>
    \A n \in 1..Len(proc[w].batch) :
      (proc[w].plan[n] # "none" /\ n \notin Failures(w)) =>
        Get(VideoOfRecord(w, n), "status", "") \in {"PROCESSED", "FAILED", "PERMANENTLY_FAILED"}

C40_Step ==
  \A v \in Videos :
    /\ (VideoKey(v) \in DOMAIN table /\ VideoKey(v) \notin DOMAIN table') =>
         Get(VideoRecord(v), "status", "") = "PERMANENTLY_FAILED"
    /\ (SummaryKey(v) \in DOMAIN table /\ SummaryKey(v) \notin DOMAIN table') =>
         Get(VideoRecord(v), "status", "") # "PROCESSED"

\* C40: with the cleanup beside an invocation of the processor, a video
\* record is PERMANENTLY_FAILED in the state in which the cleanup deletes it,
\* and the summary record of a video whose record is PROCESSED is not deleted.
C40_DeletesOnlyPermanentlyFailed == [][C40_Step]_vars
====
